---- MODULE Spec2Model ----
(***************************************************************************)
(* Model of the MIB tree builder of shmuto/mib-browser                     *)
(* (src/lib/mib-tree-builder.ts, kept in src/unnamed/part_002).            *)
(*                                                                         *)
(* A MibTreeBuilder instance is the state: the node objects it allocated   *)
(* (heap, a node's identity is its index), its symbolMap, nameMap,         *)
(* importsMap, orphanNodes and seedNodes.  buildTree is run pass by pass   *)
(* (pc), each pass being one action that performs the whole method.  A     *)
(* second buildTree call follows the first, either on a new instance or on *)
(* the same one, so that claims comparing two calls are state predicates.  *)
(* The conflict detection rebuildAllTrees runs on a returned tree          *)
(* (src/hooks/useMibStorage.ts) is the operator detectConflicts.           *)
(*                                                                         *)
(* Strings are the program's strings: keys are `${moduleName}::${name}`,   *)
(* OIDs are dot-joined decimal strings built with ToString.                *)
(***************************************************************************)
EXTENDS Integers, Sequences, FiniteSets, TLC

\* null / undefined of the program (both falsy, never a MIB identifier)
Null == "<null>"

Falsy(s) == s = "" \/ s = Null

\* value || ''
OrEmpty(s) == IF Falsy(s) THEN "" ELSE s

(***************************************************************************)
(* Bounds of the model.                                                    *)
(***************************************************************************)
\* longest module list handed to buildTree
MaxModules == 2

(***************************************************************************)
(* subid: number | number[]                                                *)
(***************************************************************************)
Num(n) == [arr |-> FALSE, v |-> <<n>>]

Arr(s) == [arr |-> TRUE, v |-> s]

RECURSIVE JoinFrom(_, _)
JoinFrom(s, i) ==
  IF i > Len(s) THEN ""
  ELSE IF i = Len(s) THEN ToString(s[i])
  ELSE ToString(s[i]) \o "." \o JoinFrom(s, i + 1)

\* Array.prototype.join('.') on a number[]
JoinDots(s) == JoinFrom(s, 1)

RECURSIVE JoinStringsFrom(_, _)
JoinStringsFrom(s, i) ==
  IF i > Len(s) THEN ""
  ELSE IF i = Len(s) THEN s[i]
  ELSE s[i] \o ", " \o JoinStringsFrom(s, i + 1)

\* Array.from(set).join(', ')
JoinComma(s) == JoinStringsFrom(s, 1)

(***************************************************************************)
(* The seed tables of registerSeedNodes and buildSeedHierarchy.            *)
(***************************************************************************)
SeedModule == "SNMPv2-SMI"

Seeds ==
  << [name |-> "iso",          oid |-> "1",              subid |-> 1],
     [name |-> "org",          oid |-> "1.3",            subid |-> 3],
     [name |-> "dod",          oid |-> "1.3.6",          subid |-> 6],
     [name |-> "internet",     oid |-> "1.3.6.1",        subid |-> 1],
     [name |-> "directory",    oid |-> "1.3.6.1.1",      subid |-> 1],
     [name |-> "mgmt",         oid |-> "1.3.6.1.2",      subid |-> 2],
     [name |-> "experimental", oid |-> "1.3.6.1.3",      subid |-> 3],
     [name |-> "private",      oid |-> "1.3.6.1.4",      subid |-> 4],
     [name |-> "enterprises",  oid |-> "1.3.6.1.4.1",    subid |-> 1],
     [name |-> "security",     oid |-> "1.3.6.1.5",      subid |-> 5],
     [name |-> "snmpV2",       oid |-> "1.3.6.1.6",      subid |-> 6],
     [name |-> "mail",         oid |-> "1.3.6.1.7",      subid |-> 7],
     [name |-> "mib-2",        oid |-> "1.3.6.1.2.1",    subid |-> 1],
     [name |-> "system",       oid |-> "1.3.6.1.2.1.1",  subid |-> 1],
     [name |-> "interfaces",   oid |-> "1.3.6.1.2.1.2",  subid |-> 2],
     [name |-> "at",           oid |-> "1.3.6.1.2.1.3",  subid |-> 3],
     [name |-> "ip",           oid |-> "1.3.6.1.2.1.4",  subid |-> 4],
     [name |-> "icmp",         oid |-> "1.3.6.1.2.1.5",  subid |-> 5],
     [name |-> "tcp",          oid |-> "1.3.6.1.2.1.6",  subid |-> 6],
     [name |-> "udp",          oid |-> "1.3.6.1.2.1.7",  subid |-> 7],
     [name |-> "egp",          oid |-> "1.3.6.1.2.1.8",  subid |-> 8],
     [name |-> "transmission", oid |-> "1.3.6.1.2.1.10", subid |-> 10],
     [name |-> "snmp",         oid |-> "1.3.6.1.2.1.11", subid |-> 11] >>

SeedHierarchy ==
  << [child |-> "org",          parent |-> "iso"],
     [child |-> "dod",          parent |-> "org"],
     [child |-> "internet",     parent |-> "dod"],
     [child |-> "directory",    parent |-> "internet"],
     [child |-> "mgmt",         parent |-> "internet"],
     [child |-> "experimental", parent |-> "internet"],
     [child |-> "private",      parent |-> "internet"],
     [child |-> "security",     parent |-> "internet"],
     [child |-> "snmpV2",       parent |-> "internet"],
     [child |-> "mail",         parent |-> "internet"],
     [child |-> "enterprises",  parent |-> "private"],
     [child |-> "mib-2",        parent |-> "mgmt"],
     [child |-> "system",       parent |-> "mib-2"],
     [child |-> "interfaces",   parent |-> "mib-2"],
     [child |-> "at",           parent |-> "mib-2"],
     [child |-> "ip",           parent |-> "mib-2"],
     [child |-> "icmp",         parent |-> "mib-2"],
     [child |-> "tcp",          parent |-> "mib-2"],
     [child |-> "udp",          parent |-> "mib-2"],
     [child |-> "egp",          parent |-> "mib-2"],
     [child |-> "transmission", parent |-> "mib-2"],
     [child |-> "snmp",         parent |-> "mib-2"] >>

(***************************************************************************)
(* Map<string, TreeBuildNode>: entries in insertion order; set() on an     *)
(* existing key replaces the value and keeps the entry's position.         *)
(* A node reference is a heap index, 0 stands for undefined.               *)
(***************************************************************************)
MapHas(m, k) == \E i \in 1..Len(m) : m[i].key = k

MapGet(m, k) ==
  IF MapHas(m, k) THEN m[CHOOSE i \in 1..Len(m) : m[i].key = k].node ELSE 0

MapSet(m, k, n) ==
  IF MapHas(m, k)
  THEN [m EXCEPT ![CHOOSE i \in 1..Len(m) : m[i].key = k].node = n]
  ELSE Append(m, [key |-> k, node |-> n])

\* `${moduleName}::${name}`
SymbolKey(moduleName, name) == moduleName \o "::" \o name

\* nameMap: name -> TreeBuildNode[] ; get() of a missing name is the empty list here
NameGet(nm, name) == IF name \in DOMAIN nm THEN nm[name] ELSE <<>>

NamePush(nm, name, n) == (name :> Append(NameGet(nm, name), n)) @@ nm

\* seedNodes.find(n => n.name === name): the first match, 0 for undefined
FindSeed(h, seeds, name) ==
  IF \E i \in 1..Len(seeds) : h[seeds[i]].name = name
  THEN seeds[CHOOSE i \in 1..Len(seeds) :
               /\ h[seeds[i]].name = name
               /\ \A j \in 1..(i - 1) : h[seeds[j]].name # name]
  ELSE 0

(***************************************************************************)
(* registerSeedNodes / buildSeedHierarchy (the constructor)                *)
(***************************************************************************)
SeedNode(s) ==
  [ name |-> s.name, oid |-> s.oid, parent |-> Null, parentName |-> Null,
    subid |-> Num(s.subid), children |-> <<>>, type |-> "OBJECT IDENTIFIER",
    syntax |-> "", access |-> "", status |-> "current",
    description |-> "Seed node", moduleName |-> SeedModule,
    mibName |-> SeedModule, fileName |-> Null ]

\* the body of hierarchy.forEach for the i-th entry of the table
LinkSeed(h, seeds, i) ==
  LET c == FindSeed(h, seeds, SeedHierarchy[i].child)
      p == FindSeed(h, seeds, SeedHierarchy[i].parent)
  IN IF c # 0 /\ p # 0
     THEN [h EXCEPT ![c].parent = h[p].oid,
                    ![c].parentName = SeedHierarchy[i].parent,
                    ![p].children = Append(@, c)]
     ELSE h

\* the entries lo..hi of the table, in their order (the range is split in halves)
RECURSIVE BuildSeedHierarchyRange(_, _, _, _)
BuildSeedHierarchyRange(h, seeds, lo, hi) ==
  IF lo > hi THEN h
  ELSE IF lo = hi THEN LinkSeed(h, seeds, lo)
  ELSE LET mid == (lo + hi) \div 2
       IN CHOOSE r \in { BuildSeedHierarchyRange(h1, seeds, mid + 1, hi) :
                          h1 \in {BuildSeedHierarchyRange(h, seeds, lo, mid)} } : TRUE

BuildSeedHierarchyFrom(h, seeds, i) ==
  BuildSeedHierarchyRange(h, seeds, i, Len(SeedHierarchy))

\* a variant that starts at the second entry of the table
buildSeedHierarchyFromSecond(h, seeds) == BuildSeedHierarchyFrom(h, seeds, 2)

buildSeedHierarchy(h, seeds) == BuildSeedHierarchyFrom(h, seeds, 1)

\* the body of seeds.forEach for the i-th entry of the table
RegisterSeed(b, i) ==
  LET id == Len(b.heap) + 1
      s  == Seeds[i]
  IN [b EXCEPT !.heap = Append(@, SeedNode(s)),
               !.seedNodes = Append(@, id),
               !.symbolMap = MapSet(@, SymbolKey(SeedModule, s.name), id),
               !.nameMap = NamePush(@, s.name, id)]

\* the entries lo..hi of the table, in their order (the range is split in halves)
RECURSIVE RegisterSeedsRange(_, _, _)
RegisterSeedsRange(b, lo, hi) ==
  IF lo > hi THEN b
  ELSE IF lo = hi THEN RegisterSeed(b, lo)
  ELSE LET mid == (lo + hi) \div 2
       IN CHOOSE r \in { RegisterSeedsRange(b1, mid + 1, hi) :
                          b1 \in {RegisterSeedsRange(b, lo, mid)} } : TRUE

RegisterSeedsFrom(b, i) == RegisterSeedsRange(b, i, Len(Seeds))

\* the builder's fields after `new MibTreeBuilder()`
EmptyBuilder ==
  [ heap |-> <<>>, symbolMap |-> <<>>, nameMap |-> <<>>, importsMap |-> <<>>,
    orphanNodes |-> <<>>, seedNodes |-> <<>> ]

registerSeedNodes ==
  LET b == RegisterSeedsFrom(EmptyBuilder, 1)
  IN [b EXCEPT !.heap = buildSeedHierarchy(b.heap, b.seedNodes)]

NewMibTreeBuilder == registerSeedNodes

(***************************************************************************)
(* Pass 1: pass1_registerSymbols                                           *)
(***************************************************************************)
\* the subid comparison of the seed-restatement test
SubidsMatch(seedSubid, objSubid) ==
  IF seedSubid.arr /\ objSubid.arr
  THEN seedSubid.v = objSubid.v
  ELSE ~seedSubid.arr /\ ~objSubid.arr /\ seedSubid.v = objSubid.v

\* the TreeBuildNode created for a declaration
NewTreeBuildNode(mod, obj) ==
  [ name |-> obj.name, oid |-> "", parent |-> Null, parentName |-> obj.parentName,
    subid |-> obj.subid, children |-> <<>>, type |-> obj.type,
    syntax |-> OrEmpty(obj.syntax), access |-> OrEmpty(obj.access),
    status |-> OrEmpty(obj.status), description |-> OrEmpty(obj.description),
    moduleName |-> mod.moduleName, mibName |-> mod.moduleName,
    fileName |-> IF Falsy(obj.fileName) THEN mod.fileName ELSE obj.fileName ]

\* the descriptive fields a restatement copies onto the node found under the seed key
EnrichSeed(node, obj) ==
  LET d == IF ~Falsy(obj.description) /\ Falsy(node.description)
           THEN obj.description ELSE node.description
      t == IF ~Falsy(obj.type) /\ node.type = "OBJECT IDENTIFIER"
           THEN obj.type ELSE node.type
  IN [node EXCEPT !.description = d, !.type = t]

\* the body of mod.objects.forEach
RegisterObject(b, mod, obj) ==
  LET existingSeedNode == MapGet(b.symbolMap, SymbolKey(SeedModule, obj.name))
      uniqueKey == SymbolKey(mod.moduleName, obj.name)
      id == Len(b.heap) + 1
  IN IF /\ existingSeedNode # 0
        /\ b.heap[existingSeedNode].parentName = obj.parentName
        /\ SubidsMatch(b.heap[existingSeedNode].subid, obj.subid)
     THEN [b EXCEPT !.heap[existingSeedNode] = EnrichSeed(@, obj),
                    !.symbolMap = MapSet(@, uniqueKey, existingSeedNode)]
     ELSE [b EXCEPT !.heap = Append(@, NewTreeBuildNode(mod, obj)),
                    !.symbolMap = MapSet(@, uniqueKey, id),
                    !.nameMap = NamePush(@, obj.name, id)]

RECURSIVE RegisterObjectsFrom(_, _, _)
RegisterObjectsFrom(b, mod, i) ==
  IF i > Len(mod.objects) THEN b
  ELSE CHOOSE r \in { RegisterObjectsFrom(b1, mod, i + 1) :
                        b1 \in {RegisterObject(b, mod, mod.objects[i])} } : TRUE

\* importsMap.set(mod.moduleName, mod.imports)
ImportsSet(im, moduleName, imports) == (moduleName :> imports) @@ im

RECURSIVE RegisterModulesFrom(_, _, _)
RegisterModulesFrom(b, mods, i) ==
  IF i > Len(mods) THEN b
  ELSE LET mod == mods[i]
           b1 == [b EXCEPT !.importsMap = ImportsSet(@, mod.moduleName, mod.imports)]
       IN CHOOSE r \in { RegisterModulesFrom(b2, mods, i + 1) :
                          b2 \in {RegisterObjectsFrom(b1, mod, 1)} } : TRUE

pass1_registerSymbols(b, mods) == RegisterModulesFrom(b, mods, 1)

(***************************************************************************)
(* Pass 2: resolveParent, pass2_linkParents                                *)
(***************************************************************************)
\* a variant in which an import binding is final: a name the module imports is
\* looked up in the source module only
resolveParentImportFinal(b, n) ==
  LET node == b.heap[n]
      parentName == node.parentName
      same == MapGet(b.symbolMap, SymbolKey(node.moduleName, parentName))
      hasImport == /\ node.moduleName \in DOMAIN b.importsMap
                   /\ parentName \in DOMAIN b.importsMap[node.moduleName]
      imported == IF hasImport
                  THEN MapGet(b.symbolMap,
                              SymbolKey(b.importsMap[node.moduleName][parentName], parentName))
                  ELSE 0
      seed == FindSeed(b.heap, b.seedNodes, parentName)
      candidates == NameGet(b.nameMap, parentName)
  IN IF same # 0 THEN same
     ELSE IF hasImport THEN imported
     ELSE IF seed # 0 THEN seed
     ELSE IF Len(candidates) = 1 THEN candidates[1]
     ELSE 0

\* a variant that sees only the nodes allocated before node n, as linking
\* during registration would
resolveParentDeclaredEarlier(b, n) ==
  LET node == b.heap[n]
      parentName == node.parentName
      same == MapGet(b.symbolMap, SymbolKey(node.moduleName, parentName))
      hasImport == /\ node.moduleName \in DOMAIN b.importsMap
                   /\ parentName \in DOMAIN b.importsMap[node.moduleName]
      imported == IF hasImport
                  THEN MapGet(b.symbolMap,
                              SymbolKey(b.importsMap[node.moduleName][parentName], parentName))
                  ELSE 0
      seed == FindSeed(b.heap, b.seedNodes, parentName)
      candidates == NameGet(b.nameMap, parentName)
      found == IF same # 0 THEN same
               ELSE IF imported # 0 THEN imported
               ELSE IF seed # 0 THEN seed
               ELSE IF Len(candidates) = 1 THEN candidates[1]
               ELSE 0
  IN IF found < n THEN found ELSE 0

\* a variant whose fallback takes the first of any number of candidates
resolveParentFirstCandidate(b, n) ==
  LET node == b.heap[n]
      parentName == node.parentName
      same == MapGet(b.symbolMap, SymbolKey(node.moduleName, parentName))
      hasImport == /\ node.moduleName \in DOMAIN b.importsMap
                   /\ parentName \in DOMAIN b.importsMap[node.moduleName]
      imported == IF hasImport
                  THEN MapGet(b.symbolMap,
                              SymbolKey(b.importsMap[node.moduleName][parentName], parentName))
                  ELSE 0
      seed == FindSeed(b.heap, b.seedNodes, parentName)
      candidates == NameGet(b.nameMap, parentName)
  IN IF same # 0 THEN same
     ELSE IF imported # 0 THEN imported
     ELSE IF seed # 0 THEN seed
     ELSE IF Len(candidates) >= 1 THEN candidates[1]
     ELSE 0

\* a variant that tries the baseline nodes before the symbol table
resolveParentBaselineFirst(b, n) ==
  LET node == b.heap[n]
      parentName == node.parentName
      same == MapGet(b.symbolMap, SymbolKey(node.moduleName, parentName))
      hasImport == /\ node.moduleName \in DOMAIN b.importsMap
                   /\ parentName \in DOMAIN b.importsMap[node.moduleName]
      imported == IF hasImport
                  THEN MapGet(b.symbolMap,
                              SymbolKey(b.importsMap[node.moduleName][parentName], parentName))
                  ELSE 0
      seed == FindSeed(b.heap, b.seedNodes, parentName)
      candidates == NameGet(b.nameMap, parentName)
  IN IF seed # 0 THEN seed
     ELSE IF same # 0 THEN same
     ELSE IF imported # 0 THEN imported
     ELSE IF Len(candidates) = 1 THEN candidates[1]
     ELSE 0

\* the parent node of node n, 0 for null
resolveParent(b, n) ==
  LET node == b.heap[n]
      parentName == node.parentName
      same == MapGet(b.symbolMap, SymbolKey(node.moduleName, parentName))
      hasImport == /\ node.moduleName \in DOMAIN b.importsMap
                   /\ parentName \in DOMAIN b.importsMap[node.moduleName]
      imported == IF hasImport
                  THEN MapGet(b.symbolMap,
                              SymbolKey(b.importsMap[node.moduleName][parentName], parentName))
                  ELSE 0
      seed == FindSeed(b.heap, b.seedNodes, parentName)
      candidates == NameGet(b.nameMap, parentName)
  IN IF same # 0 THEN same
     ELSE IF imported # 0 THEN imported
     ELSE IF seed # 0 THEN seed
     ELSE IF Len(candidates) = 1 THEN candidates[1]
     ELSE 0

\* parentNode.children.some(child => child === node)
AlreadyLinked(b, p, n) == \E i \in 1..Len(b.heap[p].children) : b.heap[p].children[i] = n

\* a variant whose parent lookup finds a node only once that node has a place:
\* a baseline node, or a node already listed under another
LinkOrOrphanUnderPlacedParent(b, n) ==
  LET p == resolveParent(b, n)
      placed == /\ p # 0
                /\ \/ \E i \in 1..Len(b.seedNodes) : b.seedNodes[i] = p
                   \/ \E q \in 1..Len(b.heap) : AlreadyLinked(b, q, p)
  IN IF placed
     THEN IF AlreadyLinked(b, p, n) THEN b
          ELSE [b EXCEPT !.heap[p].children = Append(@, n)]
     ELSE [b EXCEPT !.orphanNodes = Append(@, n)]

\* link node n under its resolved parent, or keep it as an orphan
LinkOrOrphan(b, n) ==
  LET p == resolveParent(b, n)
  IN IF p # 0
     THEN IF AlreadyLinked(b, p, n) THEN b
          ELSE [b EXCEPT !.heap[p].children = Append(@, n)]
     ELSE [b EXCEPT !.orphanNodes = Append(@, n)]

\* for (const node of this.symbolMap.values()) over the entries lo..hi, in
\* insertion order (the range is split in halves, as in pass 3 below)
RECURSIVE LinkParents(_, _, _)
LinkParents(b, lo, hi) ==
  IF lo > hi THEN b
  ELSE IF lo = hi
       THEN LET n == b.symbolMap[lo].node
            IN IF Falsy(b.heap[n].parentName) THEN b ELSE LinkOrOrphan(b, n)
  ELSE LET mid == (lo + hi) \div 2
       IN CHOOSE r \in { LinkParents(b1, mid + 1, hi) :
                          b1 \in {LinkParents(b, lo, mid)} } : TRUE

pass2_linkParents(b) == LinkParents(b, 1, Len(b.symbolMap))

(***************************************************************************)
(* Pass 2.5: one iteration of the while loop of pass2_5_rescueOrphans      *)
(***************************************************************************)
maxRetries == 3

RECURSIVE RescueFrom(_, _, _)
RescueFrom(b, currentOrphans, i) ==
  IF i > Len(currentOrphans) THEN b
  ELSE CHOOSE r \in { RescueFrom(b1, currentOrphans, i + 1) :
                        b1 \in {LinkOrOrphan(b, currentOrphans[i])} } : TRUE

RescueRound(b) == RescueFrom([b EXCEPT !.orphanNodes = <<>>], b.orphanNodes, 1)

(***************************************************************************)
(* detectMissingMibs: a Set<string> in insertion order                     *)
(***************************************************************************)
SetAdd(s, x) == IF \E i \in 1..Len(s) : s[i] = x THEN s ELSE Append(s, x)

RECURSIVE DetectMissingFrom(_, _, _)
DetectMissingFrom(b, missingMibs, i) ==
  IF i > Len(b.orphanNodes) THEN missingMibs
  ELSE LET node == b.heap[b.orphanNodes[i]]
           parentName == node.parentName
           found == /\ ~Falsy(parentName)
                    /\ node.moduleName \in DOMAIN b.importsMap
                    /\ parentName \in DOMAIN b.importsMap[node.moduleName]
       IN DetectMissingFrom(
            b,
            IF found THEN SetAdd(missingMibs, b.importsMap[node.moduleName][parentName])
            ELSE missingMibs,
            i + 1)

\* a variant that looks at the last unresolved node only
detectMissingMibsOfLastOrphan(b) == DetectMissingFrom(b, <<>>, Len(b.orphanNodes))

detectMissingMibs(b) == DetectMissingFrom(b, <<>>, 1)

\* the message of the Error thrown by buildTree
MissingMessage(missingMibs) ==
  "Missing MIB dependencies: " \o JoinComma(missingMibs)
    \o ". Please upload these MIB files first."

\* buildTree throws exactly when orphans remain and some import explains one
ThrowsMissing(b) == Len(b.orphanNodes) > 0 /\ Len(detectMissingMibs(b)) > 0

(***************************************************************************)
(* Pass 3: pass3_computeOids / computeOidRecursive                         *)
(* st = [heap, log]; log is what console.error('[Cycle Detected] ...')     *)
(* printed, in order.                                                      *)
(***************************************************************************)
NodeKey(node) == SymbolKey(node.moduleName, node.name)

\* `${node.oid}.${subid}` or `${node.oid}.${subid.join('.')}`
ChildOid(parentOid, subid) ==
  IF subid.arr THEN parentOid \o "." \o JoinDots(subid.v)
  ELSE parentOid \o "." \o ToString(subid.v[1])

\* The forEach loops of this pass are folded left to right over an index
\* range that is split in halves, which visits the elements in the code's
\* order; the state after the first half is bound as the one element of a
\* set, so that it is a value when the second half starts.
RECURSIVE computeOidRecursive(_, _, _)
RECURSIVE ComputeChildren(_, _, _, _, _)
computeOidRecursive(st, n, visited) ==
  LET key == NodeKey(st.heap[n])
  IN IF key \in visited
     THEN [st EXCEPT !.log = Append(@, key)]
     ELSE ComputeChildren(st, n, visited \cup {key}, 1, Len(st.heap[n].children))

\* a variant that gives the child its OID and does not descend into it
ComputeChildWithoutDescent(st, n, visited, i) ==
  LET c == st.heap[n].children[i]
      node == st.heap[n]
  IN IF ~Falsy(node.oid)
     THEN [st EXCEPT !.heap[c].oid = ChildOid(node.oid, st.heap[c].subid),
                     !.heap[c].parent = node.oid]
     ELSE st

\* the body of node.children.forEach for the i-th child of node n; the child
\* is handed its own copy of the visited set
ComputeChild(st, n, visited, i) ==
  LET c == st.heap[n].children[i]
      node == st.heap[n]
      st1 == IF ~Falsy(node.oid)
             THEN [st EXCEPT !.heap[c].oid = ChildOid(node.oid, st.heap[c].subid),
                             !.heap[c].parent = node.oid]
             ELSE st
  IN computeOidRecursive(st1, c, visited)

\* node.children.forEach(...) of node n over its children lo..hi
ComputeChildren(st, n, visited, lo, hi) ==
  IF lo > hi THEN st
  ELSE IF lo = hi THEN ComputeChild(st, n, visited, lo)
  ELSE LET mid == (lo + hi) \div 2
       IN CHOOSE r \in { ComputeChildren(s1, n, visited, mid + 1, hi) :
                          s1 \in {ComputeChildren(st, n, visited, lo, mid)} } : TRUE

\* a variant with one visited set for the whole pass: the walk from the first
\* baseline node reaches every baseline node, so each later walk starts with
\* the baseline keys already in the set
RECURSIVE ComputeSeedsOneVisitedSet(_, _, _, _)
ComputeSeedsOneVisitedSet(st, seeds, lo, hi) ==
  LET seedKeys == { NodeKey(st.heap[seeds[j]]) : j \in 1..Len(seeds) }
  IN IF lo > hi THEN st
     ELSE CHOOSE r \in { ComputeSeedsOneVisitedSet(s1, seeds, lo + 1, hi) :
                           s1 \in {computeOidRecursive(st, seeds[lo],
                                                       IF lo = 1 THEN {} ELSE seedKeys)} } : TRUE

\* this.seedNodes.forEach(seed => computeOidRecursive(seed, new Set())) over lo..hi
RECURSIVE ComputeSeeds(_, _, _, _)
ComputeSeeds(st, seeds, lo, hi) ==
  IF lo > hi THEN st
  ELSE IF lo = hi THEN computeOidRecursive(st, seeds[lo], {})
  ELSE LET mid == (lo + hi) \div 2
       IN CHOOSE r \in { ComputeSeeds(s1, seeds, mid + 1, hi) :
                          s1 \in {ComputeSeeds(st, seeds, lo, mid)} } : TRUE

pass3_computeOids(b) ==
  ComputeSeeds([heap |-> b.heap, log |-> <<>>], b.seedNodes, 1, Len(b.seedNodes))

(***************************************************************************)
(* buildTreeFromSeeds / convertToMibNode                                   *)
(***************************************************************************)
\* convertToMibNode has no visited set: on a cycle of children it recurses until
\* the engine's call stack is exhausted.  A descent deeper than the number of
\* allocated nodes has repeated a node, so it is on such a cycle.
RECURSIVE ConvertExceeds(_, _, _)
ConvertExceeds(h, n, fuel) ==
  \/ fuel = 0
  \/ \E i \in 1..Len(h[n].children) : ConvertExceeds(h, h[n].children[i], fuel - 1)

RECURSIVE convertToMibNode(_, _)
convertToMibNode(h, n) ==
  [ oid |-> h[n].oid, name |-> h[n].name, parent |-> h[n].parent,
    type |-> OrEmpty(h[n].type), syntax |-> OrEmpty(h[n].syntax),
    access |-> OrEmpty(h[n].access), status |-> OrEmpty(h[n].status),
    description |-> OrEmpty(h[n].description),
    children |-> [i \in 1..Len(h[n].children) |-> convertToMibNode(h, h[n].children[i])],
    mibName |-> h[n].moduleName, fileName |-> h[n].fileName, isExpanded |-> FALSE ]

\* the roots buildTreeFromSeeds converts: iso alone when it exists
TreeRoots(b) ==
  LET isoNode == FindSeed(b.heap, b.seedNodes, "iso")
  IN IF isoNode # 0 THEN <<isoNode>> ELSE b.seedNodes

StackOverflows(b) ==
  \E i \in 1..Len(TreeRoots(b)) : ConvertExceeds(b.heap, TreeRoots(b)[i], Len(b.heap) + 1)

buildTreeFromSeeds(b) ==
  [i \in 1..Len(TreeRoots(b)) |-> convertToMibNode(b.heap, TreeRoots(b)[i])]

(***************************************************************************)
(* rebuildAllTrees constructs a new builder for every buildTree call       *)
(* (`const builder = new MibTreeBuilder()` inside its loop); b is the      *)
(* builder of the previous call, which it drops.                           *)
(***************************************************************************)
\* a variant that keeps the builder of the previous call
BuilderKept(b) == b

BuilderForCall(b) == NewMibTreeBuilder

\* flattenTree of oid-utils.ts: the nodes of a forest in pre-order
RECURSIVE flattenTree(_)
flattenTree(tree) ==
  IF Len(tree) = 0 THEN <<>>
  ELSE <<tree[1]>> \o flattenTree(tree[1].children) \o flattenTree(Tail(tree))

\* the module declares the name
Declares(mod, name) == \E i \in 1..Len(mod.objects) : mod.objects[i].name = name

(***************************************************************************)
(* Steps 6 and 7 of rebuildAllTrees: the conflicts of every stored file,   *)
(* found by comparing the declarations of files with one module name.      *)
(* mods are the parsed modules of the stored files (a file's id is its     *)
(* position), flat is flattenTree(tree).  The values compared here are     *)
(* shorter than the 200 characters after which the code cuts them.         *)
(***************************************************************************)
fieldsToCheck == <<"type", "syntax", "access", "status", "description">>

\* String(obj[field] || '')
FieldValue(obj, field) ==
  OrEmpty(CASE field = "type" -> obj.type
            [] field = "syntax" -> obj.syntax
            [] field = "access" -> obj.access
            [] field = "status" -> obj.status
            [] field = "description" -> obj.description)

\* a variant that also reports a field only one of the two declarations gives
RECURSIVE DifferencesCountingEmpty(_, _, _)
DifferencesCountingEmpty(thisObj, otherObj, f) ==
  IF f > Len(fieldsToCheck) THEN <<>>
  ELSE LET thisValue == FieldValue(thisObj, fieldsToCheck[f])
           otherValue == FieldValue(otherObj, fieldsToCheck[f])
       IN (IF thisValue # otherValue
           THEN << [field |-> fieldsToCheck[f], existingValue |-> otherValue,
                    newValue |-> thisValue] >>
           ELSE <<>>)
          \o DifferencesCountingEmpty(thisObj, otherObj, f + 1)

\* the loop `for (const field of fieldsToCheck)`, from the f-th field on
RECURSIVE DifferencesFrom(_, _, _)
DifferencesFrom(thisObj, otherObj, f) ==
  IF f > Len(fieldsToCheck) THEN <<>>
  ELSE LET thisValue == FieldValue(thisObj, fieldsToCheck[f])
           otherValue == FieldValue(otherObj, fieldsToCheck[f])
       IN (IF thisValue # "" /\ otherValue # "" /\ thisValue # otherValue
           THEN << [field |-> fieldsToCheck[f], existingValue |-> otherValue,
                    newValue |-> thisValue] >>
           ELSE <<>>)
          \o DifferencesFrom(thisObj, otherObj, f + 1)

\* new Map(objects.map(o => [o.name, o])).get(name): the last declaration of the name
ObjectNamed(mod, name) ==
  mod.objects[CHOOSE k \in 1..Len(mod.objects) :
                /\ mod.objects[k].name = name
                /\ \A l \in (k + 1)..Len(mod.objects) : mod.objects[l].name # name]

\* parsedModuleMap.get(fileName): the last module parsed from a file of that name
ParsedModule(mods, fileName) ==
  mods[CHOOSE k \in 1..Len(mods) :
         /\ mods[k].fileName = fileName
         /\ \A l \in (k + 1)..Len(mods) : mods[l].fileName # fileName]

\* flatTree.find(n => n.name === name && n.mibName === moduleName)?.oid || 'unknown'
TreeNodeOid(flat, name, moduleName) ==
  IF \E k \in 1..Len(flat) : flat[k].name = name /\ flat[k].mibName = moduleName
  THEN LET n == flat[CHOOSE k \in 1..Len(flat) :
                       /\ flat[k].name = name /\ flat[k].mibName = moduleName
                       /\ \A l \in 1..(k - 1) :
                            ~(flat[l].name = name /\ flat[l].mibName = moduleName)]
       IN IF Falsy(n.oid) THEN "unknown" ELSE n.oid
  ELSE "unknown"

\* for (const [name, thisObj] of thisObjects), from the k-th declaration on
RECURSIVE ConflictsWithFrom(_, _, _, _, _, _)
ConflictsWithFrom(thisModule, otherModule, thisFile, otherFile, flat, k) ==
  IF k > Len(thisModule.objects) THEN <<>>
  ELSE LET name == thisModule.objects[k].name
           firstOfName == \A l \in 1..(k - 1) : thisModule.objects[l].name # name
           differences == DifferencesFrom(ObjectNamed(thisModule, name),
                                          ObjectNamed(otherModule, name), 1)
       IN (IF firstOfName /\ Declares(otherModule, name) /\ differences # <<>>
           THEN << [oid |-> TreeNodeOid(flat, name, thisModule.moduleName),
                    name |-> name, existingFile |-> otherFile, newFile |-> thisFile,
                    differences |-> differences] >>
           ELSE <<>>)
          \o ConflictsWithFrom(thisModule, otherModule, thisFile, otherFile, flat, k + 1)

\* for (const otherMib of otherDuplicates), from the j-th file on, for file i
RECURSIVE ConflictsOfFrom(_, _, _, _)
ConflictsOfFrom(mods, flat, i, j) ==
  IF j > Len(mods) THEN <<>>
  ELSE (IF j # i /\ mods[j].moduleName = mods[i].moduleName
        THEN ConflictsWithFrom(ParsedModule(mods, mods[i].fileName),
                               ParsedModule(mods, mods[j].fileName),
                               mods[i].fileName, mods[j].fileName, flat, 1)
        ELSE <<>>)
       \o ConflictsOfFrom(mods, flat, i, j + 1)

\* mib.conflicts of every file, in the order of the files
detectConflicts(mods, tree) ==
  [i \in 1..Len(mods) |-> ConflictsOfFrom(mods, flattenTree(tree), i, 1)]

(***************************************************************************)
(* Inputs: ParsedModule records as parseMibModule returns them.  The       *)
(* module lists handed to buildTree are all sequences of at most           *)
(* MaxModules of these.                                                    *)
(***************************************************************************)
Obj(name, parentName, subid, type, description) ==
  [ name |-> name, parentName |-> parentName, subid |-> subid, type |-> type,
    description |-> description, syntax |-> Null, access |-> Null,
    status |-> Null, fileName |-> Null ]

Mod(moduleName, fileName, imports, objects) ==
  [ moduleName |-> moduleName, fileName |-> fileName, imports |-> imports,
    objects |-> objects ]

NoImports == [x \in {} |-> ""]

AristaSmi ==
  Mod("ARISTA-SMI-MIB", "ARISTA-SMI-MIB.txt", ("enterprises" :> "SNMPv2-SMI"),
      << Obj("arista", "enterprises", Num(30065), "MODULE-IDENTITY", "Arista root"),
         Obj("aristaProducts", "arista", Num(1), "OBJECT-IDENTITY", "") >>)

AristaProducts ==
  Mod("ARISTA-PRODUCTS-MIB", "ARISTA-PRODUCTS-MIB.txt",
      ("aristaProducts" :> "ARISTA-SMI-MIB"),
      << Obj("aristaSwitch", "aristaProducts", Arr(<<3011, 7124, 3282>>),
             "OBJECT-IDENTITY", "a switch"),
         Obj("aristaModel", "aristaSwitch", Num(1), "OBJECT-TYPE", "") >>)

\* a second file declaring module ARISTA-SMI-MIB, without aristaProducts
AristaSmiOld ==
  Mod("ARISTA-SMI-MIB", "ARISTA-SMI-MIB-old.txt", NoImports,
      << Obj("arista", "enterprises", Num(30065), "MODULE-IDENTITY", "Arista root, old") >>)

\* imports the baseline name `system` from a module that is never supplied
SystemUser ==
  Mod("USER-MIB", "USER-MIB.txt", ("system" :> "SOURCE-MIB"),
      << Obj("userObject", "system", Num(1), "OBJECT-TYPE", "under system") >>)

\* imports a name no baseline node carries from a module that is never supplied
SourceUser ==
  Mod("USER-MIB", "USER-MIB-v2.txt", ("sourceRoot" :> "SOURCE-MIB"),
      << Obj("userObject", "sourceRoot", Num(1), "OBJECT-TYPE", "under sourceRoot") >>)

\* imports from two modules that are never supplied, the later-sorting one first
TwoDeps ==
  Mod("TWO-DEPS-MIB", "TWO-DEPS-MIB.txt",
      ("zebraRoot" :> "ZEBRA-MIB") @@ ("alphaRoot" :> "ALPHA-MIB"),
      << Obj("zebraLeaf", "zebraRoot", Num(1), "OBJECT-TYPE", ""),
         Obj("alphaLeaf", "alphaRoot", Num(1), "OBJECT-TYPE", "") >>)

\* a parent name nothing declares and no import explains
Orphan ==
  Mod("ORPHAN-MIB", "ORPHAN-MIB.txt", NoImports,
      << Obj("lostNode", "nowhere", Num(1), "OBJECT IDENTIFIER", ""),
         Obj("keptNode", "enterprises", Num(42), "OBJECT IDENTIFIER", "") >>)

\* refers to `arista` without importing it
Ambient ==
  Mod("AMBIENT-MIB", "AMBIENT-MIB.txt", NoImports,
      << Obj("ambientLeaf", "arista", Num(9), "OBJECT-TYPE", "") >>)

\* a mutually-referential parent chain, a self-referential one, and a sibling branch
Cycle ==
  Mod("CYCLE-MIB", "CYCLE-MIB.txt", NoImports,
      << Obj("ping", "pong", Num(1), "OBJECT IDENTIFIER", ""),
         Obj("pong", "ping", Num(2), "OBJECT IDENTIFIER", ""),
         Obj("selfRef", "selfRef", Num(3), "OBJECT IDENTIFIER", ""),
         Obj("cycleSibling", "enterprises", Num(77), "OBJECT IDENTIFIER", "") >>)

\* a baseline name declared by another module, and a reference to it
Vendor ==
  Mod("VENDOR-MIB", "VENDOR-MIB.txt", NoImports,
      << Obj("system", "enterprises", Num(5), "OBJECT IDENTIFIER", "vendor system"),
         Obj("vendorLeaf", "system", Num(1), "OBJECT-TYPE", "") >>)

\* imports `system` and `vendorLeaf` from VENDOR-MIB, declares a vendorLeaf of
\* its own, and declares a node that carries the baseline name `enterprises`
Shadow ==
  Mod("SHADOW-MIB", "SHADOW-MIB.txt",
      ("system" :> "VENDOR-MIB") @@ ("vendorLeaf" :> "VENDOR-MIB"),
      << Obj("vendorLeaf", "system", Num(7), "OBJECT IDENTIFIER", "shadow leaf"),
         Obj("shadowLeaf", "vendorLeaf", Num(1), "OBJECT-TYPE", ""),
         Obj("enterprises", "vendorLeaf", Num(3), "OBJECT IDENTIFIER", "") >>)

\* a name declared at the place of the baseline node dod through a suffix of
\* two values, and a name declared at the parent and suffix of ORPHAN-MIB's
\* keptNode
Overlap ==
  Mod("OVERLAP-MIB", "OVERLAP-MIB.txt", NoImports,
      << Obj("dodAlias", "iso", Arr(<<3, 6>>), "OBJECT IDENTIFIER", ""),
         Obj("keptTwin", "enterprises", Num(42), "OBJECT IDENTIFIER", "") >>)

\* the baseline module restating baseline nodes exactly
SmiRestate ==
  Mod(SeedModule, "SNMPv2-SMI.txt", NoImports,
      << Obj("org", "iso", Num(3), "OBJECT IDENTIFIER", "ISO organizations"),
         Obj("enterprises", "private", Num(1), "OBJECT-IDENTITY", "") >>)

\* the baseline module name declaring a baseline name under another parent
SmiMoved ==
  Mod(SeedModule, "SNMPv2-SMI-moved.txt", NoImports,
      << Obj("mgmt", "enterprises", Num(9), "OBJECT IDENTIFIER", "") >>)

\* the baseline module name declaring `org` below its own baseline child
SmiLoop ==
  Mod(SeedModule, "SNMPv2-SMI-loop.txt", NoImports,
      << Obj("org", "dod", Num(3), "OBJECT IDENTIFIER", "") >>)

Catalogue ==
  { AristaSmi, AristaProducts, AristaSmiOld, SystemUser, SourceUser, TwoDeps, Orphan, Ambient,
    Cycle, Vendor, Shadow, SmiRestate, SmiMoved, SmiLoop, Overlap }

ModuleLists == UNION { [1..n -> Catalogue] : n \in 0..MaxModules }

Reverse(s) == [i \in 1..Len(s) |-> s[Len(s) + 1 - i]]

(***************************************************************************)
(* State.                                                                  *)
(*   builder   the MibTreeBuilder instance buildTree runs on               *)
(*   modules   the argument of the current buildTree call                  *)
(*   pc        where the call is: pass1, pass2, rescue, check, pass3,      *)
(*             convert, or ended: done (returned), failed (threw Error),   *)
(*             crashed (call stack exhausted)                              *)
(*   retry     the loop counter of pass2_5_rescueOrphans                   *)
(*   cycleLog  the keys printed by `[Cycle Detected]` in this call         *)
(*   outcome   what the call returned or threw                             *)
(*   call      1 for the first call, 2 for the second                      *)
(*   fresh     the current call runs on a newly constructed instance       *)
(*   prev      the first call, kept for comparison during the second       *)
(* and of the hook useMibStorage over the IndexedDB stores:                *)
(*   mibs        the records of the store of MIB files, as getAllMibs      *)
(*               returns them (in the order of their ids)                  *)
(*   mergedTree  the record kept under the key 'merged-tree'               *)
(*   op          where the hook is: idle, in a batch of uploads, or in     *)
(*               rebuildAllTrees (at its loop, or after it)                *)
(*   rb          the local variables of the running rebuildAllTrees        *)
(* of parseMibModule on one declaration:                                   *)
(*   declaration the kind of the declaration and the characters of its     *)
(*               assignment block, from "{" to "}"                         *)
(*   parsed      what parseMibModule pushed to objects for it, if anything *)
(* and of operations of the hook that run at the same time:                *)
(*   tasks       for each running operation, where it is and its locals    *)
(***************************************************************************)
VARIABLES builder, modules, pc, retry, cycleLog, outcome, call, fresh, prev,
          mibs, mergedTree, op, rb, declaration, parsed, tasks

building == <<builder, modules, pc, retry, cycleLog, outcome, call, fresh, prev>>

storage == <<mibs, mergedTree, op, rb>>

parsing == <<declaration, parsed>>

vars == <<builder, modules, pc, retry, cycleLog, outcome, call, fresh, prev,
          mibs, mergedTree, op, rb, declaration, parsed, tasks>>

\* no declaration is being parsed, no operations run side by side
NoDeclaration == [kind |-> "", tokens |-> <<>>, content |-> <<>>]

NotParsed == [state |-> "unread"]

NoTasks == <<>>

NoOutcome == [kind |-> "none", tree |-> <<>>, message |-> "", missingMibs |-> <<>>]

Ended == {"done", "failed", "crashed"}

\* loadMergedTree when nothing is kept under 'merged-tree'
NoMergedTree == [saved |-> FALSE, tree |-> <<>>]

\* the local variables of rebuildAllTrees before its loop, for no module
NoRebuild ==
  [ modules |-> <<>>, errorFiles |-> {}, lastMissingMibs |-> <<>>, retryCount |-> 0,
    built |-> FALSE, tree |-> <<>>, attempts |-> 0 ]

Init ==
  /\ builder = NewMibTreeBuilder
  /\ modules \in ModuleLists
  /\ pc = "pass1"
  /\ retry = 0
  /\ cycleLog = <<>>
  /\ outcome = NoOutcome
  /\ call = 1
  /\ fresh = TRUE
  /\ prev = [modules |-> <<>>, outcome |-> NoOutcome, cycleLog |-> <<>>, orphans |-> 0]
  /\ mibs = <<>>
  /\ mergedTree = NoMergedTree
  /\ op = "idle"
  /\ rb = NoRebuild
  /\ declaration = NoDeclaration /\ parsed = NotParsed /\ tasks = NoTasks

Pass1 ==
  /\ pc = "pass1"
  /\ builder' = pass1_registerSymbols(builder, modules)
  /\ pc' = "pass2"
  /\ UNCHANGED <<modules, retry, cycleLog, outcome, call, fresh, prev>>
  /\ UNCHANGED <<storage, parsing, tasks>>

Pass2 ==
  /\ pc = "pass2"
  /\ builder' = pass2_linkParents(builder)
  /\ retry' = 0
  /\ pc' = "rescue"
  /\ UNCHANGED <<modules, cycleLog, outcome, call, fresh, prev>>
  /\ UNCHANGED <<storage, parsing, tasks>>

\* one iteration of the rescue loop
Rescue ==
  /\ pc = "rescue"
  /\ Len(builder.orphanNodes) > 0 /\ retry < maxRetries
  /\ builder' = RescueRound(builder)
  /\ retry' = retry + 1
  /\ UNCHANGED <<modules, pc, cycleLog, outcome, call, fresh, prev>>
  /\ UNCHANGED <<storage, parsing, tasks>>

\* the rescue loop's condition is false
RescueExit ==
  /\ pc = "rescue"
  /\ ~(Len(builder.orphanNodes) > 0 /\ retry < maxRetries)
  /\ pc' = "check"
  /\ UNCHANGED <<builder, modules, retry, cycleLog, outcome, call, fresh, prev>>
  /\ UNCHANGED <<storage, parsing, tasks>>

\* buildTree throws the missing-dependencies Error
CheckThrow ==
  /\ pc = "check"
  /\ ThrowsMissing(builder)
  /\ outcome' = [kind |-> "error", tree |-> <<>>,
                 message |-> MissingMessage(detectMissingMibs(builder)),
                 missingMibs |-> detectMissingMibs(builder)]
  /\ pc' = "failed"
  /\ UNCHANGED <<builder, modules, retry, cycleLog, call, fresh, prev>>
  /\ UNCHANGED <<storage, parsing, tasks>>

CheckPass ==
  /\ pc = "check"
  /\ ~ThrowsMissing(builder)
  /\ pc' = "pass3"
  /\ UNCHANGED <<builder, modules, retry, cycleLog, outcome, call, fresh, prev>>
  /\ UNCHANGED <<storage, parsing, tasks>>

Pass3 ==
  /\ pc = "pass3"
  /\ LET st == pass3_computeOids(builder)
     IN /\ builder' = [builder EXCEPT !.heap = st.heap]
        /\ cycleLog' = st.log
  /\ pc' = "convert"
  /\ UNCHANGED <<modules, retry, outcome, call, fresh, prev>>
  /\ UNCHANGED <<storage, parsing, tasks>>

\* buildTreeFromSeeds: it returns the forest, or convertToMibNode never comes
\* back (RangeError, maximum call stack size exceeded)
Convert ==
  /\ pc = "convert"
  /\ IF StackOverflows(builder)
     THEN /\ outcome' = [kind |-> "overflow", tree |-> <<>>,
                         message |-> "Maximum call stack size exceeded",
                         missingMibs |-> <<>>]
          /\ pc' = "crashed"
     ELSE /\ outcome' = [kind |-> "tree", tree |-> buildTreeFromSeeds(builder),
                         message |-> "", missingMibs |-> <<>>]
          /\ pc' = "done"
  /\ UNCHANGED <<builder, modules, retry, cycleLog, call, fresh, prev>>
  /\ UNCHANGED <<storage, parsing, tasks>>

Snapshot ==
  [modules |-> modules, outcome |-> outcome, cycleLog |-> cycleLog,
   orphans |-> Len(builder.orphanNodes)]

\* a second resolution of the same records, in the same or the opposite order,
\* the way rebuildAllTrees calls buildTree: on a new builder
CallOnNewBuilder ==
  /\ pc \in Ended /\ call = 1
  /\ \E mods \in {modules, Reverse(modules)} : modules' = mods
  /\ builder' = BuilderForCall(builder)
  /\ prev' = Snapshot
  /\ pc' = "pass1" /\ retry' = 0 /\ cycleLog' = <<>> /\ outcome' = NoOutcome
  /\ call' = 2 /\ fresh' = TRUE
  /\ UNCHANGED <<storage, parsing, tasks>>

\* buildTree called again on the same MibTreeBuilder instance
CallOnSameBuilder ==
  /\ pc \in Ended /\ call = 1
  /\ prev' = Snapshot
  /\ pc' = "pass1" /\ retry' = 0 /\ cycleLog' = <<>> /\ outcome' = NoOutcome
  /\ call' = 2 /\ fresh' = FALSE
  /\ UNCHANGED <<builder, modules>>
  /\ UNCHANGED <<storage, parsing, tasks>>
Next ==
  \/ Pass1
  \/ Pass2
  \/ Rescue
  \/ RescueExit
  \/ CheckThrow
  \/ CheckPass
  \/ Pass3
  \/ Convert
  \/ CallOnNewBuilder
  \/ CallOnSameBuilder

Spec == Init /\ [][Next]_vars

(***************************************************************************)
(* buildTree as one call on a new builder, the way rebuildAllTrees uses    *)
(* it: what it returns or throws.                                          *)
(***************************************************************************)
\* pass2_5_rescueOrphans: the loop the actions Rescue and RescueExit step through
RECURSIVE pass2_5_rescueOrphans(_, _)
pass2_5_rescueOrphans(b, retryCount) ==
  IF Len(b.orphanNodes) > 0 /\ retryCount < maxRetries
  THEN CHOOSE r \in { pass2_5_rescueOrphans(rescued, retryCount + 1) :
                        rescued \in {RescueRound(b)} } : TRUE
  ELSE b

\* what buildTree returns after pass 3, or that convertToMibNode never comes back
ReturnedTree(b) ==
  IF StackOverflows(b)
  THEN [kind |-> "overflow", tree |-> <<>>,
        message |-> "Maximum call stack size exceeded", missingMibs |-> <<>>]
  ELSE [kind |-> "tree", tree |-> buildTreeFromSeeds(b),
        message |-> "", missingMibs |-> <<>>]

\* from the unresolved-nodes check to the return
BuildResult(b) ==
  IF ThrowsMissing(b)
  THEN [kind |-> "error", tree |-> <<>>,
        message |-> MissingMessage(detectMissingMibs(b)),
        missingMibs |-> detectMissingMibs(b)]
  ELSE CHOOSE r \in { ReturnedTree([b EXCEPT !.heap = heap]) :
                        heap \in {pass3_computeOids(b).heap} } : TRUE

\* the passes in their order, each on the finished result of the one before
buildTree(mods) ==
  CHOOSE r \in
    { BuildResult(rescued) :
        rescued \in { pass2_5_rescueOrphans(linked, 0) :
          linked \in { pass2_linkParents(registered) :
            registered \in {pass1_registerSymbols(NewMibTreeBuilder, mods)} } } } : TRUE

(***************************************************************************)
(* The stored files.  A file is represented by the ParsedModule that       *)
(* parseMibModule(content, fileName) returns for it.                       *)
(***************************************************************************)
\* an object with every compared field given
FullObj(name, parentName, subid, type, syntax, access, status, description) ==
  [ Obj(name, parentName, subid, type, description)
      EXCEPT !.syntax = syntax, !.access = access, !.status = status ]

\* refers to `arista` through an import from ARISTA-SMI-MIB
AristaAcl ==
  Mod("ARISTA-ACL-MIB", "ARISTA-ACL-MIB.txt", ("arista" :> "ARISTA-SMI-MIB"),
      << Obj("aristaAcl", "arista", Num(5), "OBJECT IDENTIFIER", "") >>)

LeafImports == ("enterprises" :> "SNMPv2-SMI")

LeafRoot == Obj("leafRoot", "enterprises", Num(4242), "OBJECT IDENTIFIER", "")

\* four files declaring module LEAF-MIB: V2 differs from V1 in one description;
\* V3 differs from V1 in syntax and status and gives no access; V4 restates V1
LeafV1 ==
  Mod("LEAF-MIB", "LEAF-MIB-v1.txt", LeafImports,
      << LeafRoot,
         FullObj("leafValue", "leafRoot", Num(1), "OBJECT-TYPE", "Integer32",
                 "read-only", "current", "a value") >>)

LeafV2 ==
  Mod("LEAF-MIB", "LEAF-MIB-v2.txt", LeafImports,
      << LeafRoot,
         FullObj("leafValue", "leafRoot", Num(1), "OBJECT-TYPE", "Integer32",
                 "read-only", "current", "a value, reworded") >>)

LeafV3 ==
  Mod("LEAF-MIB", "LEAF-MIB-v3.txt", LeafImports,
      << LeafRoot,
         FullObj("leafValue", "leafRoot", Num(1), "OBJECT-TYPE", "Counter32",
                 Null, "deprecated", "a value") >>)

LeafV4 ==
  Mod("LEAF-MIB", "LEAF-MIB-v4.txt", LeafImports,
      << LeafRoot,
         FullObj("leafValue", "leafRoot", Num(1), "OBJECT-TYPE", "Integer32",
                 "read-only", "current", "a value") >>)

\* the files of the stores rebuildAllTrees is run on
Files ==
  { AristaSmi, AristaSmiOld, AristaProducts, AristaAcl, SourceUser,
    LeafV1, LeafV2, LeafV3, LeafV4 }

\* most files in a store that rebuildAllTrees is run on
MaxFiles == 3

\* the files a user uploads, deletes and imports
UploadFiles == { AristaSmi, AristaProducts, SourceUser, LeafV1, LeafV2 }

\* most files kept in the store while the user uploads, deletes and imports
MaxStored == 2

\* the k-th file of a chain of imports: CHAIN-k takes its parent from CHAIN-(k-1),
\* and CHAIN-0 is never stored
ChainFile(k) ==
  Mod("CHAIN-" \o ToString(k), "CHAIN-" \o ToString(k) \o ".txt",
      ("link" \o ToString(k - 1)) :> ("CHAIN-" \o ToString(k - 1)),
      << Obj("link" \o ToString(k), "link" \o ToString(k - 1), Num(1),
             "OBJECT IDENTIFIER", "") >>)

\* longest chain of imports among the stored files
MaxChain == 11

Chain(n) == [k \in 1..n |-> ChainFile(k)]

\* the StoredMibData uploadMib saves for a file
StoredMib(file) ==
  [ file |-> file, error |-> Null, missingDependencies |-> <<>>, conflicts |-> <<>>,
    nodeCount |-> 0 ]

FileNames(ms) == { ms[i].file.fileName : i \in 1..Len(ms) }

\* existingMibs.find(mib => mib.fileName === fileName): its position, or 0
FindByFileName(ms, fileName) ==
  IF fileName \in FileNames(ms)
  THEN CHOOSE i \in 1..Len(ms) :
         /\ ms[i].file.fileName = fileName
         /\ \A j \in 1..(i - 1) : ms[j].file.fileName # fileName
  ELSE 0

\* saveMib of a record whose id is the stored record's of that file name, or new
SaveMib(ms, mib) ==
  IF FindByFileName(ms, mib.file.fileName) # 0
  THEN [ms EXCEPT ![FindByFileName(ms, mib.file.fileName)] = mib]
  ELSE Append(ms, mib)

RECURSIVE SelectFrom(_, _, _)
\* s.filter(i => i \in keep), from position i on
SelectFrom(s, keep, i) ==
  IF i > Len(s) THEN <<>>
  ELSE (IF i \in keep THEN <<s[i]>> ELSE <<>>) \o SelectFrom(s, keep, i + 1)

(***************************************************************************)
(* rebuildAllTrees                                                         *)
(***************************************************************************)
\* the retry limit of the loop of rebuildAllTrees
rebuildMaxRetries == 10

\* steps 1 and 2 and the declarations before the loop
StartRebuild(ms) ==
  [ NoRebuild EXCEPT !.modules = [i \in 1..Len(ms) |-> ms[i].file] ]

\* the module names import bindings of the inputs mention, in sort() order
SortedModuleNames ==
  << "ALPHA-MIB", "ARISTA-SMI-MIB", "SNMPv2-SMI", "SOURCE-MIB", "ZEBRA-MIB" >>

NameRank(name) == CHOOSE i \in 1..Len(SortedModuleNames) : SortedModuleNames[i] = name

\* a.sort(): the names in the order of their UTF-16 code units
RECURSIVE SortNames(_)
SortNames(s) ==
  IF Len(s) <= 1 THEN s
  ELSE LET first == CHOOSE i \in 1..Len(s) :
                      \A j \in 1..Len(s) : NameRank(s[i]) <= NameRank(s[j])
       IN <<s[first]>> \o SortNames(SelectFrom(s, (1..Len(s)) \ {first}, 1))

\* errorMessage.match(/Missing MIB dependencies: ([^.]+)/)[1].split(',').map(trim):
\* the names the message lists (no module name of the inputs holds a dot or a comma)
ParseMissingMibs(result) == result.missingMibs

ImportedModules(module) == { module.imports[x] : x \in DOMAIN module.imports }

\* missingMibs.filter(m => Array.from(module.imports.values()).includes(m))
DependsOnMissing(module, missingMibs) ==
  SelectFrom(missingMibs,
             { i \in 1..Len(missingMibs) : missingMibs[i] \in ImportedModules(module) }, 1)

\* modulesToRemove, as positions in modules
ModulesToRemove(mods, missingMibs) ==
  { i \in 1..Len(mods) : DependsOnMissing(mods[i], missingMibs) # <<>> }

\* a variant that retries with the modules it had
RemainingModulesUnfiltered(mods, toRemove) == mods

\* modules.filter(m => !modulesToRemove.includes(m.fileName))
RemainingModules(mods, toRemove) ==
  SelectFrom(mods,
             { i \in 1..Len(mods) :
                 mods[i].fileName \notin { mods[j].fileName : j \in toRemove } }, 1)

\* the saveMib calls of one pass over modules: the record found for each module to
\* remove gets the error, the names it depends on, and a node count of 0
RECURSIVE MarkErrorsFrom(_, _, _, _)
MarkErrorsFrom(ms, mods, missingMibs, i) ==
  IF i > Len(mods) THEN ms
  ELSE LET dependsOnMissing == DependsOnMissing(mods[i], missingMibs)
           at == FindByFileName(ms, mods[i].fileName)
       IN MarkErrorsFrom(
            IF dependsOnMissing # <<>> /\ at # 0
            THEN [ms EXCEPT ![at].error =
                              "Missing MIB dependencies: " \o JoinComma(dependsOnMissing),
                            ![at].missingDependencies = dependsOnMissing,
                            ![at].nodeCount = 0]
            ELSE ms,
            mods, missingMibs, i + 1)

\* the number of nodes of the flattened tree that carry the file name
NodeCount(flat, fileName) ==
  Cardinality({ k \in 1..Len(flat) : ~Falsy(flat[k].fileName) /\ flat[k].fileName = fileName })

\* the position among the modules left of the module parsed from the i-th record
ValidIndex(ms, errorFiles, i) ==
  Cardinality({ j \in 1..i : ms[j].file.fileName \notin errorFiles })

\* step 7: every record whose file is no error file is saved with its conflicts,
\* without error, and with its node count
SaveValidMibs(ms, r) ==
  LET flat == flattenTree(r.tree)
      conflicts == detectConflicts(r.modules, r.tree)
  IN [ i \in 1..Len(ms) |->
         IF ms[i].file.fileName \in r.errorFiles THEN ms[i]
         ELSE [ ms[i] EXCEPT !.conflicts = conflicts[ValidIndex(ms, r.errorFiles, i)],
                             !.error = Null,
                             !.missingDependencies = <<>>,
                             !.nodeCount = NodeCount(flat, ms[i].file.fileName) ] ]

\* one pass of the loop `while (retryCount < maxRetries)`
RebuildAttempt ==
  /\ op = "rebuild"
  /\ rb.retryCount < rebuildMaxRetries
  /\ \E result \in {buildTree(rb.modules)} :
       \E missingMibs \in {SortNames(ParseMissingMibs(result))} :
         LET toRemove == ModulesToRemove(rb.modules, missingMibs)
             counted == [rb EXCEPT !.attempts = rb.attempts + 1]
         IN IF result.kind = "tree"
            THEN /\ rb' = [counted EXCEPT !.built = TRUE, !.tree = result.tree]
                 /\ op' = "finish"
                 /\ UNCHANGED mibs
            ELSE IF result.kind = "error" /\ missingMibs # SortNames(rb.lastMissingMibs)
            THEN /\ mibs' = MarkErrorsFrom(mibs, rb.modules, missingMibs, 1)
                 /\ IF toRemove # {}
                    THEN /\ rb' = [counted EXCEPT
                                     !.lastMissingMibs = missingMibs,
                                     !.errorFiles = rb.errorFiles \cup
                                        { rb.modules[i].fileName : i \in toRemove },
                                     !.modules = RemainingModules(rb.modules, toRemove),
                                     !.retryCount = rb.retryCount + 1]
                         /\ op' = "rebuild"
                    ELSE /\ rb' = [counted EXCEPT !.lastMissingMibs = missingMibs]
                         /\ op' = "finish"
            ELSE /\ rb' = counted
                 /\ op' = "finish"
                 /\ UNCHANGED mibs
  /\ UNCHANGED mergedTree
  /\ UNCHANGED <<building, parsing, tasks>>

\* what follows the loop: nothing built or no module left clears the kept tree;
\* otherwise the tree is kept and the valid records are saved (steps 4 to 7)
RebuildFinish ==
  /\ op = "finish" \/ (op = "rebuild" /\ ~(rb.retryCount < rebuildMaxRetries))
  /\ IF ~rb.built \/ Len(rb.modules) = 0
     THEN /\ mergedTree' = NoMergedTree
          /\ UNCHANGED mibs
     ELSE /\ mergedTree' = [saved |-> TRUE, tree |-> rb.tree]
          /\ mibs' = SaveValidMibs(mibs, rb)
  /\ op' = "idle"
  /\ rb' = NoRebuild
  /\ UNCHANGED <<building, parsing, tasks>>

(***************************************************************************)
(* The operations of the hook.  A batch of the uploader calls uploadMib    *)
(* with skipReload for every file but its last.                            *)
(***************************************************************************)
\* uploadMib of a file that validates and parses
UploadMib ==
  /\ op \in {"idle", "batch"}
  /\ \E file \in UploadFiles, skipReload \in BOOLEAN :
       /\ file.fileName \in FileNames(mibs) \/ Len(mibs) < MaxStored
       /\ mibs' = SaveMib(mibs, StoredMib(file))
       /\ IF skipReload
          THEN op' = "batch" /\ UNCHANGED rb
          ELSE op' = "rebuild" /\ rb' = StartRebuild(mibs')
  /\ UNCHANGED mergedTree
  /\ UNCHANGED <<building, parsing, tasks>>

\* uploadMib of a file validateMibContent rejects: it returns before saving
UploadMibRejected ==
  /\ op = "batch"
  /\ \E skipReload \in BOOLEAN : op' = IF skipReload THEN "batch" ELSE "idle"
  /\ UNCHANGED <<mibs, mergedTree, rb>>
  /\ UNCHANGED <<building, parsing, tasks>>

\* what removeMib and removeMibs do once the records are deleted
AfterRemoval(remaining) ==
  /\ mibs' = remaining
  /\ IF Len(remaining) > 0
     THEN op' = "rebuild" /\ rb' = StartRebuild(remaining) /\ UNCHANGED mergedTree
     ELSE op' = "idle" /\ mergedTree' = NoMergedTree /\ UNCHANGED rb

RemoveMib ==
  /\ op = "idle"
  /\ \E i \in 1..Len(mibs) : AfterRemoval(SelectFrom(mibs, (1..Len(mibs)) \ {i}, 1))
  /\ UNCHANGED <<building, parsing, tasks>>

RemoveMibs ==
  /\ op = "idle"
  /\ \E ids \in SUBSET (1..Len(mibs)) :
       /\ Cardinality(ids) >= 2
       /\ AfterRemoval(SelectFrom(mibs, (1..Len(mibs)) \ ids, 1))
  /\ UNCHANGED <<building, parsing, tasks>>

\* importData of an export of one record: the record of a stored file name was
\* exported from this store and keeps its id; another one sorts after the stored ones
ImportData ==
  /\ op = "idle"
  /\ \E file \in UploadFiles :
       /\ file.fileName \in FileNames(mibs) \/ Len(mibs) < MaxStored
       /\ mibs' = SaveMib(mibs, StoredMib(file))
  /\ UNCHANGED <<mergedTree, op, rb>>
  /\ UNCHANGED <<building, parsing, tasks>>

ClearAll ==
  /\ op = "idle"
  /\ mibs' = <<>>
  /\ mergedTree' = NoMergedTree
  /\ UNCHANGED <<op, rb>>
  /\ UNCHANGED <<building, parsing, tasks>>

\* the hook from an empty store on
StorageInit ==
  /\ builder = NewMibTreeBuilder
  /\ modules = <<>>
  /\ pc = "done"
  /\ retry = 0
  /\ cycleLog = <<>>
  /\ outcome = NoOutcome
  /\ call = 1
  /\ fresh = TRUE
  /\ prev = [modules |-> <<>>, outcome |-> NoOutcome, cycleLog |-> <<>>, orphans |-> 0]
  /\ mibs = <<>>
  /\ mergedTree = NoMergedTree
  /\ op = "idle"
  /\ rb = NoRebuild
  /\ declaration = NoDeclaration /\ parsed = NotParsed /\ tasks = NoTasks

StorageNext ==
  \/ UploadMib
  \/ UploadMibRejected
  \/ RemoveMib
  \/ RemoveMibs
  \/ ImportData
  \/ ClearAll
  \/ RebuildAttempt
  \/ RebuildFinish

StorageSpec == StorageInit /\ [][StorageNext]_vars

\* the lists of at most MaxFiles files of different names
FileLists ==
  { s \in UNION { [1..n -> Files] : n \in 1..MaxFiles } :
      \A i, j \in 1..Len(s) : i # j => s[i].fileName # s[j].fileName }

\* the stores rebuildAllTrees is run on: a list of files, or a chain of imports
\* with or without one more file
StoredLists ==
  FileLists \cup { Chain(n) : n \in 1..MaxChain }
            \cup { Chain(n) \o <<AristaSmi>> : n \in 1..MaxChain }

\* rebuildAllTrees on a store of newly saved records
RebuildInit ==
  /\ builder = NewMibTreeBuilder
  /\ modules = <<>>
  /\ pc = "done"
  /\ retry = 0
  /\ cycleLog = <<>>
  /\ outcome = NoOutcome
  /\ call = 1
  /\ fresh = TRUE
  /\ prev = [modules |-> <<>>, outcome |-> NoOutcome, cycleLog |-> <<>>, orphans |-> 0]
  /\ \E files \in StoredLists : mibs = [i \in 1..Len(files) |-> StoredMib(files[i])]
  /\ mergedTree = NoMergedTree
  /\ op = "rebuild"
  /\ rb = StartRebuild(mibs)
  /\ declaration = NoDeclaration /\ parsed = NotParsed /\ tasks = NoTasks

RebuildNext ==
  \/ RebuildAttempt
  \/ RebuildFinish

RebuildSpec == RebuildInit /\ [][RebuildNext]_vars

\* a step of rebuildAllTrees can be taken exactly while the call is running:
\* the guards of RebuildAttempt and RebuildFinish cover op = "rebuild" and
\* op = "finish", and each of the two changes rb or op
RebuildRunning == op # "idle"

\* rebuildAllTrees runs on: each await of it resolves. This is weak fairness
\* of RebuildNext, with ENABLED <<RebuildNext>>_vars written as RebuildRunning
RebuildLiveSpec ==
  /\ RebuildInit
  /\ [][RebuildNext]_vars
  /\ ([]<>(~RebuildRunning) \/ []<><<RebuildNext>>_vars)

(***************************************************************************)
(* Reading a result.                                                       *)
(***************************************************************************)
\* the nodes of the returned forest
ResultNodes == { flattenTree(outcome.tree)[i] : i \in 1..Len(flattenTree(outcome.tree)) }

\* the positions of a call after the unresolved-nodes check of buildTree
AfterCheck == {"pass3", "convert", "done", "crashed", "failed"}

\* the unresolved nodes the builder holds
Unresolved == { builder.heap[builder.orphanNodes[i]] : i \in 1..Len(builder.orphanNodes) }

Range(s) == { s[i] : i \in 1..Len(s) }

IsSeedName(name) == \E i \in 1..Len(Seeds) : Seeds[i].name = name

(***************************************************************************)
(* C1.  If, after linking and rescue, a node is still unresolved and the   *)
(* import bindings of its module map its parent name to a source module S, *)
(* then buildTree fails with the missing-dependencies error, the error     *)
(* names S, and no tree is returned.                                       *)
(***************************************************************************)
C1_UnresolvedImportFailsNamingSource ==
  pc \in AfterCheck =>
    \A node \in Unresolved :
      ( /\ node.moduleName \in DOMAIN builder.importsMap
        /\ node.parentName \in DOMAIN builder.importsMap[node.moduleName] )
      => /\ pc = "failed"
         /\ outcome.kind = "error"
         /\ outcome.tree = <<>>
         /\ builder.importsMap[node.moduleName][node.parentName] \in Range(outcome.missingMibs)
         /\ outcome.message =
              "Missing MIB dependencies: " \o JoinComma(outcome.missingMibs)
                \o ". Please upload these MIB files first."

\* ARISTA-PRODUCTS-MIB built without ARISTA-SMI-MIB has failed naming it
C1_Witness ==
  /\ pc = "failed" /\ call = 1 /\ modules = <<AristaProducts>>
  /\ \E node \in Unresolved : node.name = "aristaSwitch"
  /\ outcome.message =
       "Missing MIB dependencies: ARISTA-SMI-MIB. Please upload these MIB files first."

(***************************************************************************)
(* C2.  A single module declaring one node whose parent name it imports    *)
(* from a module that is not supplied: when no baseline node carries that  *)
(* name, buildTree fails naming exactly the source module, one node being  *)
(* unresolved; when the name is a baseline name, as `system` is, the       *)
(* baseline node is the parent and buildTree returns the tree with the     *)
(* node under it.                                                          *)
(***************************************************************************)
C2_ImportFromAbsentModule ==
  ( /\ call = 1 /\ pc \in Ended /\ Len(modules) = 1
    /\ Len(modules[1].objects) = 1
    /\ modules[1].objects[1].parentName \in DOMAIN modules[1].imports )
  => LET obj == modules[1].objects[1]
         S == modules[1].imports[obj.parentName]
     IN IF IsSeedName(obj.parentName)
        THEN /\ outcome.kind = "tree"
             /\ \E p \in ResultNodes :
                  /\ p.name = obj.parentName /\ p.mibName = SeedModule
                  /\ \E i \in 1..Len(p.children) :
                       /\ p.children[i].name = obj.name
                       /\ p.children[i].parent = p.oid
                       /\ p.children[i].oid = ChildOid(p.oid, obj.subid)
        ELSE /\ outcome.kind = "error"
             /\ outcome.missingMibs = <<S>>
             /\ Cardinality(Unresolved) = 1

\* the module importing sourceRoot from SOURCE-MIB has failed naming SOURCE-MIB
C2_Witness ==
  /\ pc = "failed" /\ call = 1 /\ modules = <<SourceUser>>
  /\ outcome.missingMibs = <<"SOURCE-MIB">>
  /\ Len(builder.orphanNodes) = 1

\* C2 as stated: importing `system` from the absent SOURCE-MIB fails with
\* MissingDependencies(["SOURCE-MIB"], 1)
C2_SystemFromAbsentModuleFails ==
  (call = 1 /\ pc \in Ended /\ modules = <<SystemUser>>)
  => /\ outcome.kind = "error"
     /\ outcome.missingMibs = <<"SOURCE-MIB">>
     /\ Len(builder.orphanNodes) = 1

(***************************************************************************)
(* C3.  buildTree never returns a tree while the unresolved set is         *)
(* non-empty: unresolved nodes that no import explains make it fail.       *)
(***************************************************************************)
C3_NoTreeWhileUnresolved ==
  pc \in AfterCheck /\ Len(builder.orphanNodes) > 0 => pc = "failed"

\* ORPHAN-MIB alone: lostNode is unresolved, and a tree without it was returned
C3_Witness ==
  /\ pc = "done" /\ call = 1 /\ modules = <<Orphan>>
  /\ \E node \in Unresolved : node.name = "lostNode"
  /\ outcome.kind = "tree"
  /\ \A r \in ResultNodes : r.name # "lostNode"
  /\ \E r \in ResultNodes : r.name = "keptNode"

(***************************************************************************)
(* C4.  A missing-dependencies failure carries the missing module names    *)
(* sorted and without duplicates, and its message is                       *)
(* "Missing MIB dependencies: {names}. Orphaned nodes: {count}".           *)
(***************************************************************************)
IsSortedNames(s) ==
  \A i, j \in 1..Len(s) : i < j => NameRank(s[i]) < NameRank(s[j])

C4_SortedNamesAndCount ==
  pc = "failed" =>
    /\ IsSortedNames(outcome.missingMibs)
    /\ outcome.message =
         "Missing MIB dependencies: " \o JoinComma(outcome.missingMibs)
           \o ". Orphaned nodes: " \o ToString(Len(builder.orphanNodes))

\* TWO-DEPS-MIB alone: the names are reported in the order the unresolved nodes
\* were met, and the message ends without a count
C4_Witness ==
  /\ pc = "failed" /\ call = 1 /\ modules = <<TwoDeps>>
  /\ outcome.missingMibs = <<"ZEBRA-MIB", "ALPHA-MIB">>
  /\ outcome.message =
       "Missing MIB dependencies: ZEBRA-MIB, ALPHA-MIB. Please upload these MIB files first."

(***************************************************************************)
(* C5.  Every buildTree call ends by returning a forest or by raising a    *)
(* resolution failure; the conversion to output nodes does not recurse     *)
(* without bound.                                                          *)
(***************************************************************************)
C5_EndsDoneOrFailed ==
  pc \in Ended => pc \in {"done", "failed"} /\ outcome.kind \in {"tree", "error"}

\* a module named SNMPv2-SMI declaring org under dod: pass 3 has met the cycle
\* dod -> org -> dod and stopped, the conversion has not
C5_Witness ==
  /\ pc = "crashed" /\ call = 1 /\ modules = <<SmiLoop>>
  /\ cycleLog # <<>>
  /\ outcome.kind = "overflow"

(***************************************************************************)
(* C6.  With an empty module list buildTree returns exactly the baseline   *)
(* forest: the single root iso, and under it the 23 seed nodes with their  *)
(* fixed identifiers and parent/child edges, and no other node.            *)
(***************************************************************************)
\* the seed tree as docs/MIB_TREE_BUILD_ALGORITHM.md draws it: name, OID, OID of the parent
SeedDiagram ==
  { <<"iso", "1", Null>>,
    <<"org", "1.3", "1">>,
    <<"dod", "1.3.6", "1.3">>,
    <<"internet", "1.3.6.1", "1.3.6">>,
    <<"directory", "1.3.6.1.1", "1.3.6.1">>,
    <<"mgmt", "1.3.6.1.2", "1.3.6.1">>,
    <<"mib-2", "1.3.6.1.2.1", "1.3.6.1.2">>,
    <<"system", "1.3.6.1.2.1.1", "1.3.6.1.2.1">>,
    <<"interfaces", "1.3.6.1.2.1.2", "1.3.6.1.2.1">>,
    <<"at", "1.3.6.1.2.1.3", "1.3.6.1.2.1">>,
    <<"ip", "1.3.6.1.2.1.4", "1.3.6.1.2.1">>,
    <<"icmp", "1.3.6.1.2.1.5", "1.3.6.1.2.1">>,
    <<"tcp", "1.3.6.1.2.1.6", "1.3.6.1.2.1">>,
    <<"udp", "1.3.6.1.2.1.7", "1.3.6.1.2.1">>,
    <<"egp", "1.3.6.1.2.1.8", "1.3.6.1.2.1">>,
    <<"transmission", "1.3.6.1.2.1.10", "1.3.6.1.2.1">>,
    <<"snmp", "1.3.6.1.2.1.11", "1.3.6.1.2.1">>,
    <<"experimental", "1.3.6.1.3", "1.3.6.1">>,
    <<"private", "1.3.6.1.4", "1.3.6.1">>,
    <<"enterprises", "1.3.6.1.4.1", "1.3.6.1.4">>,
    <<"security", "1.3.6.1.5", "1.3.6.1">>,
    <<"snmpV2", "1.3.6.1.6", "1.3.6.1">>,
    <<"mail", "1.3.6.1.7", "1.3.6.1">> }

\* every node of the forest hangs where its parent field says: each child's
\* parent is the OID of the node holding it
EdgesAgree(tree) ==
  \A i \in 1..Len(flattenTree(tree)) :
    \A k \in 1..Len(flattenTree(tree)[i].children) :
      flattenTree(tree)[i].children[k].parent = flattenTree(tree)[i].oid

C6_EmptyListGivesBaselineForest ==
  (modules = <<>> /\ pc \in Ended) =>
    /\ pc = "done" /\ outcome.kind = "tree"
    /\ Len(outcome.tree) = 1
    /\ outcome.tree[1].name = "iso"
    /\ Len(flattenTree(outcome.tree)) = 23
    /\ { <<r.name, r.oid, r.parent>> : r \in ResultNodes } = SeedDiagram
    /\ EdgesAgree(outcome.tree)
    /\ \A r \in ResultNodes : r.mibName = SeedModule

C6_Witness ==
  /\ modules = <<>> /\ pc = "done" /\ call = 1
  /\ Len(flattenTree(outcome.tree)) = 23
  /\ \E r \in ResultNodes : r.name = "snmp" /\ r.oid = "1.3.6.1.2.1.11"

(***************************************************************************)
(* C7.  A module whose nodes reference another module's nodes is listed    *)
(* before that module, both being supplied: buildTree succeeds, every node *)
(* of the referencing module is linked under its declared parent, and the  *)
(* rescue loop ran at most 3 rounds.                                       *)
(***************************************************************************)
\* B's declarations reference A's: B imports names, all from A, which declares them
References(B, A) ==
  /\ B.moduleName # A.moduleName
  /\ DOMAIN B.imports # {}
  /\ \A name \in DOMAIN B.imports :
       B.imports[name] = A.moduleName /\ Declares(A, name)
  /\ \A i \in 1..Len(B.objects) :
       \/ B.objects[i].parentName \in DOMAIN B.imports
       \/ Declares(B, B.objects[i].parentName)

\* the module obj of module B names as its parent's
ParentModule(B, obj) ==
  IF Declares(B, obj.parentName) THEN B.moduleName ELSE B.imports[obj.parentName]

LinkedUnderDeclaredParent(B, obj) ==
  \E p \in ResultNodes :
    /\ p.name = obj.parentName /\ p.mibName = ParentModule(B, obj)
    /\ \E k \in 1..Len(p.children) :
         /\ p.children[k].name = obj.name
         /\ p.children[k].mibName = B.moduleName
         /\ p.children[k].parent = p.oid
         /\ p.children[k].oid = ChildOid(p.oid, obj.subid)

C7_ReverseOrderSucceeds ==
  ( /\ fresh /\ pc \in Ended /\ Len(modules) = 2
    /\ References(modules[1], modules[2]) )
  => /\ pc = "done" /\ outcome.kind = "tree"
     /\ retry <= 3
     /\ Len(builder.orphanNodes) = 0
     /\ \A i \in 1..Len(modules[1].objects) :
          LinkedUnderDeclaredParent(modules[1], modules[1].objects[i])

\* ARISTA-PRODUCTS-MIB listed before ARISTA-SMI-MIB
C7_Witness ==
  /\ call = 1 /\ pc = "done" /\ modules = <<AristaProducts, AristaSmi>>
  /\ \E r \in ResultNodes :
       /\ r.name = "aristaSwitch" /\ r.oid = "1.3.6.1.4.1.30065.1.3011.7124.3282"
       /\ r.parent = "1.3.6.1.4.1.30065.1"

(***************************************************************************)
(* C8.  Resolving [A, B] and [B, A], B's declarations referencing A's,     *)
(* yields the same forest: the same nodes, the same OIDs, the same parent  *)
(* and children of every node.                                             *)
(***************************************************************************)
\* a forest as the set of its nodes, each with the set of its children
ForestShape(tree) ==
  { [ name |-> flattenTree(tree)[i].name, oid |-> flattenTree(tree)[i].oid,
      parent |-> flattenTree(tree)[i].parent, mibName |-> flattenTree(tree)[i].mibName,
      type |-> flattenTree(tree)[i].type, description |-> flattenTree(tree)[i].description,
      fileName |-> flattenTree(tree)[i].fileName,
      children |-> { <<flattenTree(tree)[i].children[k].name,
                       flattenTree(tree)[i].children[k].mibName,
                       flattenTree(tree)[i].children[k].oid>> :
                     k \in 1..Len(flattenTree(tree)[i].children) } ] :
    i \in 1..Len(flattenTree(tree)) }

\* the two modules may be listed in either order: they have different names,
\* and either neither bears the baseline module's name or one references the other
Reorderable(m1, m2) ==
  /\ m1.moduleName # m2.moduleName
  /\ \/ m1.moduleName # SeedModule /\ m2.moduleName # SeedModule
     \/ References(m1, m2)
     \/ References(m2, m1)

C10_SecondCallOnSameInstance ==
  (call = 2 /\ ~fresh /\ pc \in Ended) => outcome = prev.outcome

\* [ARISTA-SMI-MIB] twice on one instance: the second forest holds arista twice
C10_Witness ==
  /\ call = 2 /\ ~fresh /\ pc = "done" /\ modules = <<AristaSmi>>
  /\ prev.modules = modules /\ prev.outcome.kind = "tree"
  /\ Cardinality({ i \in 1..Len(flattenTree(prev.outcome.tree)) :
                     flattenTree(prev.outcome.tree)[i].name = "arista" }) = 1
  /\ Cardinality({ i \in 1..Len(flattenTree(outcome.tree)) :
                     flattenTree(outcome.tree)[i].name = "arista" }) = 2

(***************************************************************************)
(* C11.  In every returned forest each node listed under another has the   *)
(* OID of that node followed by its own subid values in order, and its     *)
(* parent field is that node's OID.                                        *)
(***************************************************************************)
\* the nodes reached from the set S of nodes by following children
RECURSIVE ReachFrom(_, _)
ReachFrom(h, S) ==
  LET T == S \cup UNION { Range(h[n].children) : n \in S }
  IN IF T = S THEN S ELSE ReachFrom(h, T)

\* the working nodes the returned forest was converted from
InForest == ReachFrom(builder.heap, Range(TreeRoots(builder)))

C11_OidIsParentOidThenSubids ==
  pc = "done" =>
    \A n \in InForest :
      \A k \in 1..Len(builder.heap[n].children) :
        LET node == builder.heap[n]
            child == builder.heap[node.children[k]]
        IN /\ child.oid = ChildOid(node.oid, child.subid)
           /\ child.parent = node.oid

\* a module named SNMPv2-SMI declaring mgmt ::= { enterprises 9 }: the forest lists
\* mib-2 under the baseline mgmt (1.3.6.1.2) with an OID below the declared mgmt
C11_Witness ==
  /\ pc = "done" /\ call = 1 /\ modules = <<SmiMoved>>
  /\ \E p \in ResultNodes :
       /\ p.name = "mgmt" /\ p.oid = "1.3.6.1.2"
       /\ \E k \in 1..Len(p.children) :
            /\ p.children[k].name = "mib-2"
            /\ p.children[k].oid = "1.3.6.1.4.1.9.1"
            /\ p.children[k].parent = "1.3.6.1.4.1.9"

(***************************************************************************)
(* C12.  Nodes on a self-referential or mutually-referential parent chain  *)
(* are absent from the returned forest, while every node whose parent      *)
(* chain reaches a baseline node has its OID and is in the forest.         *)
(***************************************************************************)
\* the node the linker resolves as the parent of node n, 0 when it has none
ParentOf(b, n) == IF Falsy(b.heap[n].parentName) THEN 0 ELSE resolveParent(b, n)

\* the nodes above the nodes of S along resolved parents
RECURSIVE AncestorsFrom(_, _)
AncestorsFrom(b, S) ==
  LET T == S \cup ({ ParentOf(b, n) : n \in S } \ {0})
  IN IF T = S THEN S ELSE AncestorsFrom(b, T)

Ancestors(b, n) == AncestorsFrom(b, {ParentOf(b, n)} \ {0})

OnParentCycle(b, n) == n \in Ancestors(b, n)

ReachesBaseline(b, n) ==
  \E a \in Ancestors(b, n) \cup {n} : a \in Range(b.seedNodes)

\* the nodes the symbol map holds: the declarations in force
Declared(b) == { b.symbolMap[i].node : i \in 1..Len(b.symbolMap) }

CycleReported(b, n) ==
  \E a \in Ancestors(b, n) :
    OnParentCycle(b, a) /\ NodeKey(b.heap[a]) \in Range(cycleLog)

C13_CycleReportedAndRunSucceeds ==
  ( /\ pc \in Ended /\ pc # "failed" /\ fresh
    /\ \E n \in Declared(builder) : OnParentCycle(builder, n) )
  => /\ pc = "done" /\ outcome.kind = "tree"
     /\ \A n \in Declared(builder) :
          OnParentCycle(builder, n) => CycleReported(builder, n)

\* CYCLE-MIB alone: the forest is returned, and nothing was reported for
\* ping <-> pong or selfRef
C13_Witness ==
  /\ pc = "done" /\ call = 1 /\ modules = <<Cycle>>
  /\ \E n \in Declared(builder) :
       builder.heap[n].name = "pong" /\ OnParentCycle(builder, n)
  /\ cycleLog = <<>>

(***************************************************************************)
(* Reading the store after rebuildAllTrees.                                *)
(***************************************************************************)
\* rebuildAllTrees has ended and kept a tree
Rebuilt == op = "idle" /\ mergedTree.saved

\* the records rebuildAllTrees did not exclude
ValidMibs == { i \in 1..Len(mibs) : mibs[i].error = Null }

ObjectNames(mod) == { mod.objects[k].name : k \in 1..Len(mod.objects) }

\* the checked fields that both declarations give, with different values
DifferingFields(thisObj, otherObj) ==
  { f \in Range(fieldsToCheck) :
      /\ FieldValue(thisObj, f) # "" /\ FieldValue(otherObj, f) # ""
      /\ FieldValue(thisObj, f) # FieldValue(otherObj, f) }

\* the conflict records of record i about a name, against the file of record j
RecordsFor(i, j, name) ==
  { k \in 1..Len(mibs[i].conflicts) :
      /\ mibs[i].conflicts[k].name = name
      /\ mibs[i].conflicts[k].existingFile = mibs[j].file.fileName
      /\ mibs[i].conflicts[k].newFile = mibs[i].file.fileName }

\* two kept files of one module name
SameModulePairs ==
  { p \in ValidMibs \X ValidMibs :
      p[1] # p[2] /\ mibs[p[1]].file.moduleName = mibs[p[2]].file.moduleName }

ReferenceOnlyKinds == {"OBJECT IDENTIFIER", "MODULE-IDENTITY", "OBJECT-IDENTITY"}

C15_ReferenceOnlyKindsNeverConflict ==
  Rebuilt =>
    \A i \in ValidMibs : \A k \in 1..Len(mibs[i].conflicts) :
      ObjectNamed(mibs[i].file, mibs[i].conflicts[k].name).type \notin ReferenceOnlyKinds

\* the two ARISTA-SMI-MIB files stored: each record holds a conflict about `arista`,
\* a MODULE-IDENTITY in both, for its description
C15_Witness ==
  /\ Rebuilt
  /\ Len(mibs) = 2 /\ mibs[1].file = AristaSmi /\ mibs[2].file = AristaSmiOld
  /\ ObjectNamed(AristaSmi, "arista").type = "MODULE-IDENTITY"
  /\ ObjectNamed(AristaSmiOld, "arista").type = "MODULE-IDENTITY"
  /\ Len(mibs[1].conflicts) = 1
  /\ mibs[1].conflicts[1].name = "arista"
  /\ mibs[1].conflicts[1].oid = "1.3.6.1.4.1.30065"
  /\ mibs[1].conflicts[1].differences =
       << [field |-> "description", existingValue |-> "Arista root, old",
           newValue |-> "Arista root"] >>
  /\ Len(mibs[2].conflicts) = 1

(***************************************************************************)
(* C16.  Whenever the hook is idle, after any completed uploads, batches,  *)
(* deletions, imports and clears, the kept merged tree is the one          *)
(* rebuildAllTrees builds from the files stored now, and nothing is kept   *)
(* when it builds none.                                                    *)
(***************************************************************************)
\* what the loop and the step after it of rebuildAllTrees leave under 'merged-tree'
RECURSIVE RebuiltFrom(_, _, _)
RebuiltFrom(mods, lastMissingMibs, retryCount) ==
  IF ~(retryCount < rebuildMaxRetries) THEN NoMergedTree
  ELSE LET result == buildTree(mods)
           missingMibs == SortNames(ParseMissingMibs(result))
           toRemove == ModulesToRemove(mods, missingMibs)
       IN IF result.kind = "tree"
          THEN IF Len(mods) = 0 THEN NoMergedTree
               ELSE [saved |-> TRUE, tree |-> result.tree]
          ELSE IF /\ result.kind = "error"
                  /\ missingMibs # SortNames(lastMissingMibs)
                  /\ toRemove # {}
          THEN RebuiltFrom(RemainingModules(mods, toRemove), missingMibs, retryCount + 1)
          ELSE NoMergedTree

StoredFiles == [i \in 1..Len(mibs) |-> mibs[i].file]

C16_KeptTreeIsRebuiltFromStoredFiles ==
  op = "idle" => mergedTree = RebuiltFrom(StoredFiles, <<>>, 0)

\* LEAF-MIB-v1.txt imported into an empty store: the record is stored as imported,
\* nothing is kept under 'merged-tree', and a rebuild would keep a tree with leafValue
C16_Witness ==
  /\ op = "idle"
  /\ mibs = <<StoredMib(LeafV1)>>
  /\ mergedTree = NoMergedTree
  /\ RebuiltFrom(StoredFiles, <<>>, 0).saved
  /\ \E k \in 1..Len(flattenTree(RebuiltFrom(StoredFiles, <<>>, 0).tree)) :
       flattenTree(RebuiltFrom(StoredFiles, <<>>, 0).tree)[k].name = "leafValue"

(***************************************************************************)
(* C17.  After rebuildAllTrees, every stored file that depends on nothing  *)
(* absent, directly or through files that do, is kept without an error and *)
(* has its declarations in the kept tree; and a file is marked with an     *)
(* error only when it depends on something absent.                         *)
(***************************************************************************)
\* the name x of module M is there for the files S: a baseline name of the baseline
\* module, or declared by one of the files S under that module name
Provided(S, M, x) ==
  \/ M = SeedModule /\ IsSeedName(x)
  \/ \E j \in S : mibs[j].file.moduleName = M /\ Declares(mibs[j].file, x)

\* the largest set of stored files whose imports are all provided by files of the set
RECURSIVE SelfSufficient(_)
SelfSufficient(S) ==
  LET T == { i \in S : \A x \in DOMAIN mibs[i].file.imports :
                         Provided(S, mibs[i].file.imports[x], x) }
  IN IF T = S THEN S ELSE SelfSufficient(T)

\* the stored files that depend on nothing absent
Independent == SelfSufficient(1..Len(mibs))

KeptNodes == Range(flattenTree(mergedTree.tree))

\* every declaration of the i-th stored file is a node of the kept tree
Contributes(i) ==
  \A k \in 1..Len(mibs[i].file.objects) :
    \E node \in KeptNodes :
      /\ node.name = mibs[i].file.objects[k].name
      /\ node.mibName = mibs[i].file.moduleName

C17_MissingDependencyExcludesOnlyDependents ==
  op = "idle" =>
    \A i \in 1..Len(mibs) :
      /\ mibs[i].error # Null => i \notin Independent
      /\ i \in Independent => mergedTree.saved /\ mibs[i].error = Null /\ Contributes(i)

\* ARISTA-SMI-MIB-old.txt, ARISTA-PRODUCTS-MIB.txt and ARISTA-ACL-MIB.txt stored:
\* ARISTA-ACL-MIB imports `arista`, which the stored ARISTA-SMI-MIB declares, and is
\* marked with the error and left out of the kept tree all the same
C17_Witness ==
  /\ op = "idle" /\ mergedTree.saved
  /\ Len(mibs) = 3
  /\ mibs[1].file = AristaSmiOld /\ mibs[2].file = AristaProducts /\ mibs[3].file = AristaAcl
  /\ 3 \in Independent /\ 2 \notin Independent
  /\ mibs[3].error = "Missing MIB dependencies: ARISTA-SMI-MIB"
  /\ mibs[3].missingDependencies = <<"ARISTA-SMI-MIB">>
  /\ \E node \in KeptNodes : node.name = "arista"
  /\ ~\E node \in KeptNodes : node.name = "aristaAcl"

(***************************************************************************)
(* C18.  In one rebuildAllTrees the builder is invoked at most 10 times;   *)
(* a pass of the loop that is followed by another one leaves strictly      *)
(* fewer modules; the loop ends with the pass in which buildTree returns,  *)
(* or no module can be excluded, or the missing names are those of the     *)
(* pass before; and rebuildAllTrees comes to its end.                      *)
(***************************************************************************)
\* a step that is one pass of the loop
LoopPass == op = "rebuild" /\ rb.retryCount < rebuildMaxRetries /\ rb' # rb

\* the pass is followed by another one only with fewer modules and one more retry
RetryShrinks ==
  (LoopPass /\ op' = "rebuild") =>
    /\ Len(rb'.modules) < Len(rb.modules)
    /\ rb'.retryCount = rb.retryCount + 1

\* the pass ends the loop when one of the three reasons to end holds
LoopEndsWhenItShould ==
  LoopPass =>
    LET result == buildTree(rb.modules)
        missingMibs == SortNames(ParseMissingMibs(result))
    IN /\ result.kind = "tree" => op' = "finish" /\ rb'.built
       /\ (result.kind = "error" /\ ModulesToRemove(rb.modules, missingMibs) = {})
            => op' = "finish" /\ ~rb'.built
       /\ (result.kind = "error" /\ missingMibs = SortNames(rb.lastMissingMibs))
            => op' = "finish" /\ ~rb'.built

C18_RebuildLoopBoundedAndTerminates ==
  /\ [](rb.attempts <= rebuildMaxRetries)
  /\ [][RetryShrinks /\ LoopEndsWhenItShould]_vars
  /\ <>(op = "idle")

\* the chain CHAIN-1..CHAIN-11: ten passes have each excluded one file, the builder
\* was invoked ten times, and the loop stops with CHAIN-11 left and nothing built
C18_Witness ==
  /\ op = "rebuild"
  /\ Len(mibs) = 11
  /\ rb.attempts = rebuildMaxRetries /\ rb.retryCount = rebuildMaxRetries
  /\ Len(rb.modules) = 1 /\ rb.modules[1] = ChainFile(11)
  /\ ~rb.built
  /\ rb.lastMissingMibs = <<"CHAIN-9">>

(***************************************************************************)
(* C19.  The parent every node is linked under is the first hit of:        *)
(* (1) the node keyed (its module, parentName); (2) when its module        *)
(* imports parentName from S, the node keyed (S, parentName); (3) the      *)
(* baseline node named parentName; (4) the single node carrying the bare   *)
(* name parentName; and the node is unresolved when none applies.  So a    *)
(* same-module definition shadows an import, an import shadows the         *)
(* baseline, and the baseline shadows the ambient fallback.                *)
(***************************************************************************)
\* the node the symbol table holds under (moduleName, name), 0 for none
Keyed(b, moduleName, name) == MapGet(b.symbolMap, SymbolKey(moduleName, name))

\* the module S that module moduleName imports name from, as a set
ImportedFrom(b, moduleName, name) ==
  IF moduleName \in DOMAIN b.importsMap /\ name \in DOMAIN b.importsMap[moduleName]
  THEN {b.importsMap[moduleName][name]}
  ELSE {}

\* the baseline nodes named name
BaselineNamed(b, name) == { s \in Range(b.seedNodes) : b.heap[s].name = name }

\* the nodes carrying the bare name, baseline nodes included
Carrying(b, name) == { m \in 1..Len(b.heap) : b.heap[m].name = name }

\* the hits of the four steps for node n, each a set of at most one node
StepHits(b, n) ==
  LET node == b.heap[n]
      parentName == node.parentName
  IN << {Keyed(b, node.moduleName, parentName)} \ {0},
        { Keyed(b, S, parentName) :
            S \in ImportedFrom(b, node.moduleName, parentName) } \ {0},
        BaselineNamed(b, parentName),
        IF Cardinality(Carrying(b, parentName)) = 1
        THEN Carrying(b, parentName) ELSE {} >>

\* the first hit in the order of the steps, 0 when no step applies
FirstOf(hits) ==
  IF \A k \in 1..4 : hits[k] = {} THEN 0
  ELSE LET first == CHOOSE k \in 1..4 : hits[k] # {} /\ \A j \in 1..(k - 1) : hits[j] = {}
       IN CHOOSE p \in hits[first] : TRUE

FirstHit(b, n) == FirstOf(StepHits(b, n))

\* the nodes that list node n among their children
ListedUnder(b, n) ==
  { q \in 1..Len(b.heap) : \E k \in 1..Len(b.heap[q].children) : b.heap[q].children[k] = n }

\* pass 2 and the rescue rounds have run, and pass 3 has not yet been reached
Linked == pc = "check"

C19_ParentIsFirstHitOfFixedOrder ==
  Linked =>
    \A n \in Declared(builder) :
      ~Falsy(builder.heap[n].parentName) =>
        \E hits \in {StepHits(builder, n)} :
          \E p \in {FirstOf(hits)} :
            /\ \A k \in 1..4 : Cardinality(hits[k]) <= 1
            /\ resolveParent(builder, n) = p
            /\ IF p = 0
               THEN n \in Range(builder.orphanNodes)
               ELSE p \in ListedUnder(builder, n)
            /\ n \notin Range(builder.seedNodes) =>
                 ListedUnder(builder, n) = (IF p = 0 THEN {} ELSE {p})

\* the node of module moduleName named name
NodeOf(b, moduleName, name) ==
  CHOOSE n \in 1..Len(b.heap) :
    b.heap[n].moduleName = moduleName /\ b.heap[n].name = name

\* [VENDOR-MIB, SHADOW-MIB]: shadowLeaf is under SHADOW-MIB's vendorLeaf though
\* its module imports vendorLeaf from VENDOR-MIB, which declares one; SHADOW-MIB's
\* vendorLeaf is under VENDOR-MIB's system though a baseline node is named system;
\* VENDOR-MIB's system is under the baseline enterprises though a second node
\* carries that name
C19_Witness ==
  /\ pc = "check" /\ call = 1 /\ modules = <<Vendor, Shadow>>
  /\ LET b == builder
         shadowLeaf == NodeOf(b, "SHADOW-MIB", "shadowLeaf")
         shadowVendorLeaf == NodeOf(b, "SHADOW-MIB", "vendorLeaf")
         vendorSystem == NodeOf(b, "VENDOR-MIB", "system")
     IN /\ StepHits(b, shadowLeaf)[1] = {shadowVendorLeaf}
        /\ StepHits(b, shadowLeaf)[2] = {NodeOf(b, "VENDOR-MIB", "vendorLeaf")}
        /\ ListedUnder(b, shadowLeaf) = {shadowVendorLeaf}
        /\ StepHits(b, shadowVendorLeaf)[1] = {}
        /\ StepHits(b, shadowVendorLeaf)[2] = {vendorSystem}
        /\ StepHits(b, shadowVendorLeaf)[3] = {FindSeed(b.heap, b.seedNodes, "system")}
        /\ ListedUnder(b, shadowVendorLeaf) = {vendorSystem}
        /\ StepHits(b, vendorSystem)[1] = {} /\ StepHits(b, vendorSystem)[2] = {}
        /\ StepHits(b, vendorSystem)[3] = {FindSeed(b.heap, b.seedNodes, "enterprises")}
        /\ Carrying(b, "enterprises") =
             {FindSeed(b.heap, b.seedNodes, "enterprises"), NodeOf(b, "SHADOW-MIB", "enterprises")}
        /\ ListedUnder(b, vendorSystem) = {FindSeed(b.heap, b.seedNodes, "enterprises")}

(***************************************************************************)
(* C20.  A node for which steps 1 to 3 of the lookup fail while more than  *)
(* one node carries the bare name parentName is unresolved: it is an       *)
(* orphan and is listed under none of the same-named candidates.           *)
(***************************************************************************)
\* steps 1 to 3 hit nothing for node n, and several nodes carry its parent name
AmbiguousFallback(b, n) ==
  /\ ~Falsy(b.heap[n].parentName)
  /\ Cardinality(Carrying(b, b.heap[n].parentName)) > 1
  /\ \E hits \in {StepHits(b, n)} : \A k \in 1..3 : hits[k] = {}

\* pass 2 and the rescue rounds are over
AfterLinking == pc \in {"check", "pass3", "convert"} \cup Ended

C20_AmbiguousNameIsUnresolved ==
  AfterLinking =>
    \A n \in Declared(builder) :
      AmbiguousFallback(builder, n) =>
        /\ resolveParent(builder, n) = 0
        /\ n \in Range(builder.orphanNodes)
        /\ ListedUnder(builder, n) = {}

\* [ARISTA-SMI-MIB, AMBIENT-MIB] built a second time on the same instance: two
\* nodes named arista exist, and the new ambientLeaf is left an orphan, while
\* the first call's ambientLeaf is under the first call's arista
C20_Witness ==
  /\ pc = "check" /\ call = 2 /\ ~fresh /\ modules = <<AristaSmi, Ambient>>
  /\ LET b == builder
         ambientLeaf == Keyed(b, "AMBIENT-MIB", "ambientLeaf")
     IN /\ AmbiguousFallback(b, ambientLeaf)
        /\ Cardinality(Carrying(b, "arista")) = 2
        /\ ambientLeaf \in Range(b.orphanNodes)
        /\ \A c \in Carrying(b, "arista") : ambientLeaf \notin Range(b.heap[c].children)
        /\ \E old \in Carrying(b, "ambientLeaf") \ {ambientLeaf} :
             \E c \in Carrying(b, "arista") : old \in Range(b.heap[c].children)

(***************************************************************************)
(* C21.  After linking and rescue every linked node occurs exactly once    *)
(* across the children collections of all nodes: it is a child of exactly  *)
(* one parent and is listed there once.                                    *)
(***************************************************************************)
\* the places (parent, position) at which node n is listed as a child
ChildPlaces(b, n) ==
  { <<q, k>> \in (1..Len(b.heap)) \X (1..Len(b.heap)) :
      k <= Len(b.heap[q].children) /\ b.heap[q].children[k] = n }

C21_LinkedNodeHasOneParentOnce ==
  pc = "check" =>
    \A n \in 1..Len(builder.heap) : Cardinality(ChildPlaces(builder, n)) <= 1

\* a module named SNMPv2-SMI declaring mgmt ::= { enterprises 9 }: the baseline
\* mib-2 is listed under the baseline mgmt and under the declared mgmt
C21_Witness ==
  /\ pc = "check" /\ call = 1 /\ modules = <<SmiMoved>>
  /\ LET b == builder
         mib2 == FindSeed(b.heap, b.seedNodes, "mib-2")
         mgmt == FindSeed(b.heap, b.seedNodes, "mgmt")
         declared == Keyed(b, SeedModule, "mgmt")
     IN /\ declared # mgmt
        /\ b.heap[declared].parentName = "enterprises"
        /\ ListedUnder(b, mib2) = {mgmt, declared}

(***************************************************************************)
(* C22.  A declaration whose name, parent name and suffix equal those of   *)
(* a baseline node creates no additional node: the returned forest holds   *)
(* exactly one node of that name at that position, and the declaring       *)
(* module's key for the name leads to the baseline node.  The baseline     *)
(* node takes the description the declaration supplies.                    *)
(***************************************************************************)
\* the parent name the baseline table gives a baseline name, Null for the root
BaselineParent(name) ==
  IF \E i \in 1..Len(SeedHierarchy) : SeedHierarchy[i].child = name
  THEN SeedHierarchy[CHOOSE i \in 1..Len(SeedHierarchy) : SeedHierarchy[i].child = name].parent
  ELSE Null

\* the rows of the baseline table that the declaration restates
Restated(obj) ==
  { i \in 1..Len(Seeds) :
      /\ Seeds[i].name = obj.name
      /\ BaselineParent(obj.name) = obj.parentName
      /\ obj.subid = Num(Seeds[i].subid) }

\* the nodes of the returned forest named name at the identifier oid
ReturnedAt(name, oid) == { r \in ResultNodes : r.name = name /\ r.oid = oid }

C22_RestatementEnrichesBaselineNode ==
  (pc = "done" /\ call = 1) =>
    \A m \in 1..Len(modules) :
      \A k \in 1..Len(modules[m].objects) :
        LET obj == modules[m].objects[k]
        IN \A i \in Restated(obj) :
             /\ Keyed(builder, modules[m].moduleName, obj.name)
                  = FindSeed(builder.heap, builder.seedNodes, obj.name)
             /\ Cardinality({ j \in 1..Len(flattenTree(outcome.tree)) :
                                /\ flattenTree(outcome.tree)[j].name = obj.name
                                /\ flattenTree(outcome.tree)[j].oid = Seeds[i].oid }) = 1
             /\ ~Falsy(obj.description) =>
                  \A r \in ReturnedAt(obj.name, Seeds[i].oid) :
                    r.description = obj.description

\* a module restating org ::= { iso 3 } with the description "ISO organizations":
\* the forest holds one org at 1.3, and its description is still "Seed node";
\* enterprises has taken the declaration's type
C22_Witness ==
  /\ pc = "done" /\ call = 1 /\ modules = <<SmiRestate>>
  /\ Len(builder.heap) = Len(Seeds)
  /\ Keyed(builder, SeedModule, "org") = FindSeed(builder.heap, builder.seedNodes, "org")
  /\ \E r \in ReturnedAt("org", "1.3") : r.description = "Seed node"
  /\ \A r \in ReturnedAt("org", "1.3") : r.description # "ISO organizations"
  /\ \A r \in ReturnedAt("enterprises", "1.3.6.1.4.1") : r.type = "OBJECT-IDENTITY"

(***************************************************************************)
(* C23.  Every baseline node is in every returned forest with its          *)
(* pre-assigned identifier and its baseline parent, whatever modules are   *)
(* supplied.                                                               *)
(***************************************************************************)
\* the identifier the baseline table gives a baseline name, Null for none
BaselineOid(name) ==
  IF \E i \in 1..Len(Seeds) : Seeds[i].name = name
  THEN Seeds[CHOOSE i \in 1..Len(Seeds) : Seeds[i].name = name].oid
  ELSE Null

\* the returned forest lists, under the node at the baseline parent's identifier
\* (or among the roots), a node with the i-th baseline name and identifier
BaselineNodeInPlace(i) ==
  LET name == Seeds[i].name
      parentName == BaselineParent(name)
  IN IF parentName = Null
     THEN \E j \in 1..Len(outcome.tree) :
            outcome.tree[j].name = name /\ outcome.tree[j].oid = Seeds[i].oid
     ELSE \E p \in ResultNodes :
            /\ p.name = parentName /\ p.oid = BaselineOid(parentName)
            /\ \E k \in 1..Len(p.children) :
                 /\ p.children[k].name = name
                 /\ p.children[k].oid = Seeds[i].oid
                 /\ p.children[k].parent = BaselineOid(parentName)

C23_BaselineNodesKeepPlaceAndIdentifier ==
  (pc = "done" /\ outcome.kind = "tree") => \A i \in 1..Len(Seeds) : BaselineNodeInPlace(i)

\* a module named SNMPv2-SMI declaring mgmt ::= { enterprises 9 }: the forest
\* holds no node at 1.3.6.1.2.1 or 1.3.6.1.2.1.1; mib-2 and system carry
\* identifiers below the declared mgmt
C23_Witness ==
  /\ pc = "done" /\ call = 1 /\ modules = <<SmiMoved>> /\ outcome.kind = "tree"
  /\ \A r \in ResultNodes : r.oid \notin {"1.3.6.1.2.1", "1.3.6.1.2.1.1"}
  /\ \A r \in ResultNodes : r.name = "mib-2" => r.oid = "1.3.6.1.4.1.9.1"
  /\ \A r \in ResultNodes :
       r.name = "system" => r.oid = "1.3.6.1.4.1.9.1.1" /\ r.parent = "1.3.6.1.4.1.9.1"
  /\ \E r \in ResultNodes : r.name = "system"

(***************************************************************************)
(* C24.  The rescue loop runs at most 3 rounds, and a round that leaves    *)
(* the number of unresolved nodes unchanged is the last one: after it the  *)
(* loop runs no further round.                                             *)
(***************************************************************************)
\* a step that is one round of the rescue loop
RescueRoundTaken == pc = "rescue" /\ pc' = "rescue" /\ retry' = retry + 1

\* the round left as many unresolved nodes as it found
RoundWithoutProgress ==
  RescueRoundTaken /\ Len(builder'.orphanNodes) = Len(builder.orphanNodes)

\* the loop would run another round
AnotherRound == pc = "rescue" /\ Len(builder.orphanNodes) > 0 /\ retry < 3

C24_RescueAtMostThreeRoundsAndStopsEarly ==
  /\ [](retry <= 3)
  /\ [][RoundWithoutProgress => ~AnotherRound']_vars

\* ORPHAN-MIB: lostNode is unresolved after pass 2, the first round has left it
\* unresolved, and the loop is about to run a second round
C24_Witness ==
  /\ pc = "rescue" /\ call = 1 /\ modules = <<Orphan>>
  /\ retry = 1 /\ Len(builder.orphanNodes) = 1
  /\ builder.heap[builder.orphanNodes[1]].name = "lostNode"
  /\ RescueRound(builder).orphanNodes = builder.orphanNodes
  /\ AnotherRound

(***************************************************************************)
(* C25.  Every module name reported in a missing-dependencies failure is   *)
(* the name of none of the supplied modules.                               *)
(***************************************************************************)
\* the module names of the supplied list
SuppliedNames == { modules[m].moduleName : m \in 1..Len(modules) }

C25_ReportedMissingModuleWasNotSupplied ==
  (pc = "failed" /\ outcome.kind = "error") =>
    \A i \in 1..Len(outcome.missingMibs) : outcome.missingMibs[i] \notin SuppliedNames

\* the older file of ARISTA-SMI-MIB, which lacks aristaProducts, supplied with
\* ARISTA-PRODUCTS-MIB: the failure names ARISTA-SMI-MIB
C25_Witness ==
  /\ pc = "failed" /\ call = 1 /\ modules = <<AristaSmiOld, AristaProducts>>
  /\ outcome.kind = "error"
  /\ outcome.missingMibs = <<"ARISTA-SMI-MIB">>
  /\ "ARISTA-SMI-MIB" \in SuppliedNames
  /\ Keyed(builder, "ARISTA-SMI-MIB", "aristaProducts") = 0
  /\ Keyed(builder, "ARISTA-SMI-MIB", "arista") # 0

(***************************************************************************)
(* C26.  In a run whose linked parent relation is acyclic, address         *)
(* computation flags no cycle and skips no node: every node listed under   *)
(* a node reachable from a baseline node has the identifier and parent     *)
(* that a node listing it gives it.                                        *)
(***************************************************************************)
\* the nodes of S left after repeatedly dropping those with no child in S
RECURSIVE OnChildCycles(_, _)
OnChildCycles(h, S) ==
  LET T == { n \in S : \E k \in 1..Len(h[n].children) : h[n].children[k] \in S }
  IN IF T = S THEN S ELSE OnChildCycles(h, T)

\* following children never leads back to a node
AcyclicLinks(b) == OnChildCycles(b.heap, 1..Len(b.heap)) = {}

MaxTokens == 3

MaxPad == 2

DigitChars == {"0", "1", "2", "8"}

DigitValue(c) == CASE c = "0" -> 0 [] c = "1" -> 1 [] c = "2" -> 2 [] c = "8" -> 8

\* \w of the regular expressions, for the characters written here
WordChars == DigitChars \cup {"a", "i", "x", "_"}

IsSpace(c) == c = " "

\* what a block is written with: bare integers, name(value) pairs, and
\* tokens that are neither
TokenList ==
  { [text |-> <<"1">>,                          kind |-> "integer", value |-> 1],
    [text |-> <<"2">>,                          kind |-> "integer", value |-> 2],
    [text |-> <<"8", "0", "2">>,                kind |-> "integer", value |-> 802],
    [text |-> <<"i", "(", "8", "0", "2", ")">>, kind |-> "pair",    value |-> 802],
    [text |-> <<"x", "-", "a", "(", "2", ")">>, kind |-> "pair",    value |-> 2],
    [text |-> <<"a">>,                          kind |-> "other",   value |-> 0],
    [text |-> <<"(", "1", ")">>,                kind |-> "other",   value |-> 0],
    [text |-> <<"a", "(", ")">>,                kind |-> "other",   value |-> 0],
    [text |-> <<"2", "a">>,                     kind |-> "other",   value |-> 0] }

\* the kinds of declaration: the first two are read by
\* extractOidAssignmentsRaw, the last by parseObjectTypeRaw
DeclarationKinds == {"OBJECT IDENTIFIER", "OBJECT-IDENTITY", "OBJECT-TYPE"}

Blanks(n) == [i \in 1..n |-> " "]

RECURSIVE JoinTokens(_, _)
JoinTokens(toks, i) ==
  IF i > Len(toks) THEN <<>>
  ELSE toks[i].text \o (IF i < Len(toks) THEN <<" ">> ELSE <<>>) \o JoinTokens(toks, i + 1)

\* the characters from "{" to "}"
WriteBlock(toks, pad) == <<"{">> \o Blanks(pad) \o JoinTokens(toks, 1) \o Blanks(pad) \o <<"}">>

AllIn(s, chars) == \A i \in 1..Len(s) : s[i] \in chars

RECURSIVE TrimStart(_)
TrimStart(s) == IF s # <<>> /\ IsSpace(Head(s)) THEN TrimStart(Tail(s)) ELSE s

RECURSIVE TrimEnd(_)
TrimEnd(s) == IF s # <<>> /\ IsSpace(s[Len(s)]) THEN TrimEnd(SubSeq(s, 1, Len(s) - 1)) ELSE s

\* String.prototype.trim
Trim(s) == TrimEnd(TrimStart(s))

\* s.split(/\s+/), word being the characters read since the last blank
RECURSIVE SplitFrom(_, _)
SplitFrom(s, word) ==
  IF s = <<>> THEN <<word>>
  ELSE IF IsSpace(Head(s))
       THEN IF Tail(s) # <<>> /\ IsSpace(Head(Tail(s)))
            THEN SplitFrom(Tail(s), word)
            ELSE <<word>> \o SplitFrom(Tail(s), <<>>)
       ELSE SplitFrom(Tail(s), Append(word, Head(s)))

Split(s) == SplitFrom(s, <<>>)

\* parseInt(s, 10) and Number(s) of a string of digits; Number('') is 0
RECURSIVE parseInt(_)
parseInt(s) ==
  IF s = <<>> THEN 0
  ELSE parseInt(SubSeq(s, 1, Len(s) - 1)) * 10 + DigitValue(s[Len(s)])

NoMatch == [matched |-> FALSE]

\* part.match(/^[\w\-]+\((\d+)\)$/)
namedMatch(part) ==
  LET opens == { i \in 1..Len(part) : part[i] = "(" }
  IN IF opens = {} THEN NoMatch
     ELSE LET o == CHOOSE i \in opens : \A j \in opens : i <= j
              name == SubSeq(part, 1, o - 1)
              digits == SubSeq(part, o + 1, Len(part) - 1)
          IN IF /\ name # <<>> /\ AllIn(name, WordChars \cup {"-"})
                /\ part[Len(part)] = ")" /\ digits # <<>> /\ AllIn(digits, DigitChars)
             THEN [matched |-> TRUE, value |-> digits]
             ELSE NoMatch

\* the loop of parseOidBlock over parts[1], parts[2], ...
RECURSIVE SubidsOfParts(_, _)
SubidsOfParts(parts, i) ==
  IF i > Len(parts) THEN <<>>
  ELSE LET part == parts[i]
           m == namedMatch(part)
       IN (IF m.matched THEN <<parseInt(m.value)>>
           ELSE IF part # <<>> /\ AllIn(part, DigitChars) THEN <<parseInt(part)>>
           ELSE <<>>) \o SubidsOfParts(parts, i + 1)

\* blockContent.replace(/^\s*\{\s*|\s*\}\s*$/g, '').trim()
InnerOf(blockContent) ==
  LET front == TrimStart(blockContent)
      cut   == IF front # <<>> /\ Head(front) = "{" THEN Tail(front) ELSE blockContent
      back  == TrimEnd(cut)
  IN Trim(IF back # <<>> /\ back[Len(back)] = "}" THEN SubSeq(back, 1, Len(back) - 1) ELSE cut)

parseOidBlock(blockContent) ==
  LET inner == InnerOf(blockContent)
      parts == SelectSeq(Split(inner), LAMBDA p : Len(p) > 0)
      subids == SubidsOfParts(parts, 2)
  IN IF inner = <<>> \/ Len(parts) < 2 \/ Len(subids) = 0 THEN NoMatch
     ELSE [matched |-> TRUE, parent |-> parts[1], subids |-> subids]

\* the longest run of [\w\-] s starts with
RECURSIVE WordRun(_)
WordRun(s) ==
  IF s # <<>> /\ Head(s) \in WordChars \cup {"-"} THEN 1 + WordRun(Tail(s)) ELSE 0

\* content.match(/::=\s*\{\s*([\w\-]+)\s+([\d\s]+)\s*\}/) where the block
\* follows '::=': the greedy \s+ gives its last blank back when nothing else
\* is left for the second group
oidMatch(blockContent) ==
  LET body == TrimStart(SubSeq(blockContent, 2, Len(blockContent) - 1))
      n    == WordRun(body)
      rest == SubSeq(body, n + 1, Len(body))
  IN IF \/ n = 0 \/ Len(rest) < 2 \/ ~IsSpace(rest[1])
        \/ ~AllIn(rest, DigitChars \cup {" "})
     THEN NoMatch
     ELSE [matched |-> TRUE, parentName |-> SubSeq(body, 1, n),
           subids |-> IF TrimStart(rest) = <<>> THEN <<" ">> ELSE TrimStart(rest)]

\* subids.length === 1 ? subids[0] : subids
SubidOf(subids) == IF Len(subids) = 1 THEN Num(subids[1]) ELSE Arr(subids)

Skipped == [state |-> "skipped"]

Pushed(kind, parentName, subids) ==
  [state |-> "pushed", type |-> kind, parentName |-> parentName, subid |-> SubidOf(subids)]

\* extractOidAssignmentsRaw and the first forEach of parseMibModule
extractOidAssignmentsRaw(decl) ==
  LET p == parseOidBlock(decl.content)
  IN IF ~p.matched THEN Skipped ELSE Pushed(decl.kind, p.parent, p.subids)

\* parseObjectTypeRaw and the second forEach of parseMibModule
parseObjectTypeRaw(decl) ==
  LET m == oidMatch(decl.content)
  IN IF ~m.matched THEN Skipped
     ELSE LET parts == Split(Trim(m.subids))
          IN Pushed("OBJECT-TYPE", m.parentName, [i \in 1..Len(parts) |-> parseInt(parts[i])])

TokenLists == UNION { [1..n -> TokenList] : n \in 0..MaxTokens }

ParseInit ==
  /\ builder = NewMibTreeBuilder
  /\ modules = <<>>
  /\ pc = "done"
  /\ retry = 0
  /\ cycleLog = <<>>
  /\ outcome = NoOutcome
  /\ call = 1
  /\ fresh = TRUE
  /\ prev = [modules |-> <<>>, outcome |-> NoOutcome, cycleLog |-> <<>>, orphans |-> 0]
  /\ mibs = <<>>
  /\ mergedTree = NoMergedTree
  /\ op = "idle"
  /\ rb = NoRebuild
  /\ \E kind \in DeclarationKinds, toks \in TokenLists, pad \in 0..MaxPad :
       /\ Len(toks) + pad > 0
       /\ declaration = [kind |-> kind, tokens |-> toks, content |-> WriteBlock(toks, pad)]
  /\ parsed = NotParsed
  /\ tasks = NoTasks

\* parseMibModule on a module whose one declaration is an assignment
ParseAssignment ==
  /\ parsed = NotParsed /\ declaration.kind # "OBJECT-TYPE"
  /\ parsed' = extractOidAssignmentsRaw(declaration)
  /\ UNCHANGED <<building, storage, declaration, tasks>>

\* parseMibModule on a module whose one declaration is an OBJECT-TYPE
ParseObjectType ==
  /\ parsed = NotParsed /\ declaration.kind = "OBJECT-TYPE"
  /\ parsed' = parseObjectTypeRaw(declaration)
  /\ UNCHANGED <<building, storage, declaration, tasks>>

ParseNext ==
  \/ ParseAssignment
  \/ ParseObjectType

ParseSpec == ParseInit /\ [][ParseNext]_vars

\* the numeric values of the tokens after the first, in the order written
RECURSIVE ValuesWritten(_, _)
ValuesWritten(toks, i) ==
  IF i > Len(toks) THEN <<>>
  ELSE (IF toks[i].kind \in {"integer", "pair"} THEN <<toks[i].value>> ELSE <<>>)
       \o ValuesWritten(toks, i + 1)

SuffixAsWritten(decl) ==
  LET values == ValuesWritten(decl.tokens, 2)
  IN IF Len(decl.tokens) < 2 \/ values = <<>> THEN Skipped
     ELSE [state |-> "pushed", type |-> decl.kind, parentName |-> decl.tokens[1].text,
           subid |-> IF Len(values) = 1 THEN Num(values[1]) ELSE Arr(values)]

\* C27: the suffix kept for a declaration is the sequence of the numeric
\* values of the tokens after the parent, in the order written: a bare
\* integer gives itself, a name(value) pair gives value, any other token
\* gives nothing; a block of fewer than two tokens or without a numeric value
\* gives no declaration; one value is kept as a number, several as a list.
C27_SuffixIsTheNumericValuesInOrder ==
  parsed # NotParsed => parsed = SuffixAsWritten(declaration)

\* an OBJECT-TYPE whose block holds a name(value) pair with a numeric value
\* has been parsed, and no declaration was pushed for it
C27_Witness ==
  /\ declaration.kind = "OBJECT-TYPE"
  /\ Len(declaration.tokens) = 2
  /\ declaration.tokens[1].text = <<"a">>
  /\ declaration.tokens[2].kind = "pair" /\ declaration.tokens[2].value = 802
  /\ parsed = Skipped

\* what holds: the declarations read through parseOidBlock keep the suffix
\* as written
AssignmentSuffixAsWritten ==
  (parsed # NotParsed /\ declaration.kind # "OBJECT-TYPE") => parsed = SuffixAsWritten(declaration)

(***************************************************************************)
(* C28.  No two distinct nodes of a returned forest carry the same OID,    *)
(* whatever modules are supplied.                                          *)
(***************************************************************************)
\* the nodes of the forest at places i and j of its flattening are two nodes
\* with one OID
SameOid(flat, i, j) == i # j /\ flat[i].oid = flat[j].oid

C28_NoTwoForestNodesShareAnOid ==
  (pc = "done" /\ outcome.kind = "tree") =>
    \E flat \in {flattenTree(outcome.tree)} :
      \A i, j \in 1..Len(flat) : ~SameOid(flat, i, j)

\* OVERLAP-MIB alone, first call: the forest holds the baseline dod and the
\* declared dodAlias, both with the OID 1.3.6
C28_Witness ==
  /\ pc = "done" /\ call = 1 /\ modules = <<Overlap>> /\ outcome.kind = "tree"
  /\ \E flat \in {flattenTree(outcome.tree)} :
       \E i, j \in 1..Len(flat) :
         /\ SameOid(flat, i, j)
         /\ flat[i].name = "dod" /\ flat[j].name = "dodAlias" /\ flat[i].oid = "1.3.6"

(***************************************************************************)
(* C29.  Rescue rounds never change the outcome of linking: a round of the *)
(* rescue loop leaves the list of unresolved nodes and every list of       *)
(* children as the first linking pass left them.                           *)
(***************************************************************************)
RoundChangesNothing ==
  /\ builder'.orphanNodes = builder.orphanNodes
  /\ \A n \in 1..Len(builder.heap) : builder'.heap[n].children = builder.heap[n].children

C29_RescueRoundsChangeNothing == [][RescueRoundTaken => RoundChangesNothing]_vars

\* ORPHAN-MIB: lostNode was unresolved after pass 2, the loop has run its
\* three rounds, and lostNode is still the one unresolved node
C29_Witness ==
  /\ pc = "check" /\ call = 1 /\ modules = <<Orphan>>
  /\ retry = 3 /\ Len(builder.orphanNodes) = 1
  /\ builder.heap[builder.orphanNodes[1]].name = "lostNode"
  /\ builder.orphanNodes = pass2_linkParents(pass1_registerSymbols(NewMibTreeBuilder, modules)).orphanNodes

(***************************************************************************)
(* Operations of the hook running side by side (useMibStorage.ts).  Each   *)
(* task is one call of uploadMib, uploadMibFromText or removeMib; a step   *)
(* is what the call does up to its next awaited storage request, and the   *)
(* saveMib requests of one loop are taken together.  The two calls are     *)
(* about files of different names; loadData, which only reads, is left out.*)
(***************************************************************************)
\* the files the calls store and delete
SharedFiles == {AristaSmi, AristaProducts, SourceUser}

NewTask(kind, file) ==
  [kind |-> kind, file |-> file, at |-> "start", rb |-> NoRebuild, allMibs |-> <<>>]

\* store.delete(id) for the record of the file
DeleteMib(ms, fileName) ==
  SelectFrom(ms, { i \in 1..Len(ms) : ms[i].file.fileName # fileName }, 1)

\* store.put(mib) of a record read with allMibs: it replaces the record of its
\* id, or comes back at the place of its id, after the stored records that
\* were before it in allMibs
PutRead(ms, mib, allMibs) ==
  LET fileName == mib.file.fileName
      at == FindByFileName(ms, fileName)
      older == { allMibs[k].file.fileName : k \in 1..(FindByFileName(allMibs, fileName) - 1) }
      before == { i \in 1..Len(ms) : ms[i].file.fileName \in older }
  IN IF at # 0 THEN [ms EXCEPT ![at] = mib]
     ELSE SelectFrom(ms, before, 1) \o <<mib>> \o SelectFrom(ms, (1..Len(ms)) \ before, 1)

RECURSIVE PutAllFrom(_, _, _, _)
PutAllFrom(ms, recs, allMibs, i) ==
  IF i > Len(recs) THEN ms
  ELSE PutAllFrom(PutRead(ms, recs[i], allMibs), recs, allMibs, i + 1)

\* one pass of the loop of rebuildAllTrees on the locals r and the records
\* allMibs read in step 1: the locals and the records after it, the records it
\* saves, and whether the loop goes on
LoopPassOn(r, allMibs) ==
  CHOOSE x \in
    { LET missingMibs == SortNames(ParseMissingMibs(result))
          toRemove == ModulesToRemove(r.modules, missingMibs)
          removed == { r.modules[i].fileName : i \in toRemove }
          counted == [r EXCEPT !.attempts = r.attempts + 1]
          marked == MarkErrorsFrom(allMibs, r.modules, missingMibs, 1)
      IN IF result.kind = "tree"
         THEN [ rb |-> [counted EXCEPT !.built = TRUE, !.tree = result.tree],
                allMibs |-> allMibs, saved |-> <<>>, again |-> FALSE ]
         ELSE IF result.kind = "error" /\ missingMibs # SortNames(r.lastMissingMibs)
         THEN [ rb |-> IF toRemove # {}
                       THEN [counted EXCEPT
                               !.lastMissingMibs = missingMibs,
                               !.errorFiles = r.errorFiles \cup removed,
                               !.modules = RemainingModules(r.modules, toRemove),
                               !.retryCount = r.retryCount + 1]
                       ELSE [counted EXCEPT !.lastMissingMibs = missingMibs],
                allMibs |-> marked,
                saved |-> SelectFrom(marked,
                            { k \in 1..Len(marked) : marked[k].file.fileName \in removed }, 1),
                again |-> toRemove # {} ]
         ELSE [rb |-> counted, allMibs |-> allMibs, saved |-> <<>>, again |-> FALSE]
      : result \in {buildTree(r.modules)} } : TRUE

\* the condition of the loop after a pass
LoopGoesOn(x) == x.again /\ x.rb.retryCount < rebuildMaxRetries

\* the records step 7 saves: those of allMibs whose file is no error file
ValidRecords(allMibs, r) ==
  LET saved == SaveValidMibs(allMibs, r)
  IN SelectFrom(saved, { k \in 1..Len(saved) : saved[k].file.fileName \notin r.errorFiles }, 1)

\* rebuildAllTrees run from its first step to its last with nothing else
\* running, on the store ms: what it leaves in the two stores
RECURSIVE RebuildLoopOn(_, _)
RebuildLoopOn(r, allMibs) ==
  CHOOSE y \in { IF LoopGoesOn(x) THEN RebuildLoopOn(x.rb, x.allMibs) ELSE x :
                   x \in {LoopPassOn(r, allMibs)} } : TRUE

RebuildAlone(ms) ==
  CHOOSE s \in
    { IF ~x.rb.built \/ Len(x.rb.modules) = 0
      THEN [mergedTree |-> NoMergedTree, mibs |-> x.allMibs]
      ELSE [mergedTree |-> [saved |-> TRUE, tree |-> x.rb.tree],
            mibs |-> SaveValidMibs(x.allMibs, x.rb)]
      : x \in {RebuildLoopOn(StartRebuild(ms), ms)} } : TRUE

\* the stores the calls start on: no file or one, rebuilt
StartStores == {<<>>} \cup { <<StoredMib(f)>> : f \in SharedFiles }

\* the calls that can be made on the store ms
Calls(ms) ==
  { NewTask("upload", f) : f \in SharedFiles }
    \cup { NewTask("remove", f) : f \in { g \in SharedFiles : g.fileName \in FileNames(ms) } }

ConcurrentInit ==
  /\ builder = NewMibTreeBuilder
  /\ modules = <<>>
  /\ pc = "done"
  /\ retry = 0
  /\ cycleLog = <<>>
  /\ outcome = NoOutcome
  /\ call = 1
  /\ fresh = TRUE
  /\ prev = [modules |-> <<>>, outcome |-> NoOutcome, cycleLog |-> <<>>, orphans |-> 0]
  /\ op = "idle"
  /\ rb = NoRebuild
  /\ declaration = NoDeclaration /\ parsed = NotParsed
  /\ \E start \in StartStores :
       \E s \in {RebuildAlone(start)} :
         /\ mibs = s.mibs
         /\ mergedTree = s.mergedTree
         /\ \E first, second \in Calls(start) :
              /\ first.file.fileName # second.file.fileName
              /\ tasks = <<first, second>>

\* uploadMib: saveMib(mibData), with the id of the stored record of the file name
TaskSaveMib ==
  /\ \E i \in DOMAIN tasks :
       /\ tasks[i].at = "start" /\ tasks[i].kind = "upload"
       /\ mibs' = SaveMib(mibs, StoredMib(tasks[i].file))
       /\ tasks' = [tasks EXCEPT ![i].at = "rebuild"]
  /\ UNCHANGED <<mergedTree, op, rb>>
  /\ UNCHANGED <<building, parsing>>

\* removeMib: deleteMib(id)
TaskDeleteMib ==
  /\ \E i \in DOMAIN tasks :
       /\ tasks[i].at = "start" /\ tasks[i].kind = "remove"
       /\ mibs' = DeleteMib(mibs, tasks[i].file.fileName)
       /\ tasks' = [tasks EXCEPT ![i].at = "remaining"]
  /\ UNCHANGED <<mergedTree, op, rb>>
  /\ UNCHANGED <<building, parsing>>

\* removeMib: remainingMibs = await getAllMibs(), and the test of its length
TaskRemainingMibs ==
  /\ \E i \in DOMAIN tasks :
       /\ tasks[i].at = "remaining"
       /\ tasks' = [tasks EXCEPT ![i].at = IF Len(mibs) > 0 THEN "rebuild" ELSE "clear"]
  /\ UNCHANGED storage
  /\ UNCHANGED <<building, parsing>>

\* removeMib: clearMergedTree() when no record remained
TaskClearMergedTree ==
  /\ \E i \in DOMAIN tasks :
       /\ tasks[i].at = "clear"
       /\ tasks' = [tasks EXCEPT ![i].at = "done"]
  /\ mergedTree' = NoMergedTree
  /\ UNCHANGED <<mibs, op, rb>>
  /\ UNCHANGED <<building, parsing>>

\* rebuildAllTrees: allMibs = await getAllMibs(), steps 2 and 3 up to the loop
TaskGetAllMibs ==
  /\ \E i \in DOMAIN tasks :
       /\ tasks[i].at = "rebuild"
       /\ tasks' = [tasks EXCEPT ![i].at = "loop", ![i].allMibs = mibs,
                                 ![i].rb = StartRebuild(mibs)]
  /\ UNCHANGED storage
  /\ UNCHANGED <<building, parsing>>

\* rebuildAllTrees: one pass of the loop, with its saveMib requests
TaskLoopPass ==
  /\ \E i \in DOMAIN tasks :
       /\ tasks[i].at = "loop"
       /\ \E x \in {LoopPassOn(tasks[i].rb, tasks[i].allMibs)} :
            /\ mibs' = PutAllFrom(mibs, x.saved, tasks[i].allMibs, 1)
            /\ tasks' = [tasks EXCEPT ![i].rb = x.rb, ![i].allMibs = x.allMibs,
                                      ![i].at = IF LoopGoesOn(x) THEN "loop" ELSE "tree"]
  /\ UNCHANGED <<mergedTree, op, rb>>
  /\ UNCHANGED <<building, parsing>>

\* rebuildAllTrees after the loop: clearMergedTree() and return, or
\* saveMergedTree(tree)
TaskSaveMergedTree ==
  /\ \E i \in DOMAIN tasks :
       /\ tasks[i].at = "tree"
       /\ IF ~tasks[i].rb.built \/ Len(tasks[i].rb.modules) = 0
          THEN /\ mergedTree' = NoMergedTree
               /\ tasks' = [tasks EXCEPT ![i].at = "done"]
          ELSE /\ mergedTree' = [saved |-> TRUE, tree |-> tasks[i].rb.tree]
               /\ tasks' = [tasks EXCEPT ![i].at = "records"]
  /\ UNCHANGED <<mibs, op, rb>>
  /\ UNCHANGED <<building, parsing>>

\* rebuildAllTrees, step 7: saveMib of every record read that is no error file
TaskSaveValidMibs ==
  /\ \E i \in DOMAIN tasks :
       /\ tasks[i].at = "records"
       /\ mibs' = PutAllFrom(mibs, ValidRecords(tasks[i].allMibs, tasks[i].rb),
                             tasks[i].allMibs, 1)
       /\ tasks' = [tasks EXCEPT ![i].at = "done"]
  /\ UNCHANGED <<mergedTree, op, rb>>
  /\ UNCHANGED <<building, parsing>>

ConcurrentNext ==
  \/ TaskSaveMib
  \/ TaskDeleteMib
  \/ TaskRemainingMibs
  \/ TaskClearMergedTree
  \/ TaskGetAllMibs
  \/ TaskLoopPass
  \/ TaskSaveMergedTree
  \/ TaskSaveValidMibs

ConcurrentSpec == ConcurrentInit /\ [][ConcurrentNext]_vars

(***************************************************************************)
(* C30.  When two calls that each store or delete a file and rebuild have  *)
(* both completed, the kept tree and the records of the files are those a  *)
(* rebuild over the files stored at the end leaves, whatever the order of  *)
(* their awaited steps was.                                                *)
(***************************************************************************)
BothCompleted == tasks # NoTasks /\ \A i \in DOMAIN tasks : tasks[i].at = "done"

C30_ConcurrentCallsLeaveARebuiltStore ==
  BothCompleted =>
    \E s \in {RebuildAlone(mibs)} : mergedTree = s.mergedTree /\ mibs = s.mibs

\* ARISTA-SMI-MIB.txt and ARISTA-PRODUCTS-MIB.txt uploaded side by side into an
\* empty store: both calls have completed, both files are stored, and the kept
\* tree is the one built from ARISTA-SMI-MIB.txt alone, without aristaSwitch
C30_Witness ==
  /\ BothCompleted
  /\ tasks[1].kind = "upload" /\ tasks[1].file = AristaSmi
  /\ tasks[2].kind = "upload" /\ tasks[2].file = AristaProducts
  /\ FileNames(mibs) = {AristaSmi.fileName, AristaProducts.fileName}
  /\ mergedTree.saved
  /\ \A k \in 1..Len(flattenTree(mergedTree.tree)) :
       flattenTree(mergedTree.tree)[k].name # "aristaSwitch"
  /\ \E k \in 1..Len(flattenTree(RebuildAlone(mibs).mergedTree.tree)) :
       flattenTree(RebuildAlone(mibs).mergedTree.tree)[k].name = "aristaSwitch"
====
